---- MODULE Spec2Model ----
(***************************************************************************)
(* A model of mini-manus: the tool registry (tools/__init__.py,            *)
(* ToolCollection), the orchestrator loop (agent.py, BaseAgent), the       *)
(* database tool (tools/database.py, DatabaseTool), the code sandbox       *)
(* (tools/python_executor.py, PythonExecutor), the calculator              *)
(* (tools/calculator.py, Calculator) and the file tool                     *)
(* (tools/file_editor.py, FileEditor).                                     *)
(*                                                                         *)
(* Strings of the program are modelled by what decides the control flow:   *)
(* a result string by its kind, an argument mapping by how the tool's      *)
(* validate_args and execute react to it.  Elapsed time (total_time) and   *)
(* the free text of a record (user_input, plan summary) are left out: no   *)
(* branch of the modelled code reads them.                                 *)
(***************************************************************************)
EXTENDS Naturals, Integers, Sequences, FiniteSets

\* ------------------------------------------------------------------ bounds

MaxBudget == 2      \* largest configured agent.max_steps explored
MaxPlanLen == 3     \* longest plan explored
MaxRuns == 2        \* run() invocations per agent explored
MaxCalls == 2       \* dispatches per registered tool entry explored
NumInstances == 2   \* distinct tool objects per tool name
MaxSqlLen == 4      \* longest query text explored, in lexemes
MaxConns == 2       \* driver connections open at once explored
MaxExecs == 2       \* sandbox executions per PythonExecutor explored
MaxEvals == 3       \* evaluations per Calculator explored
MaxRowCap == 2      \* largest configured DatabaseTool.max_rows explored
MaxFiles == 5       \* files the explored file system holds at most

\* ----------------------------------------------------------- program data

\* agent.py:212-213: the history holds at most 100 records and is cut to 50.
HistoryCap == 100
HistoryKeep == 50

\* database.py:58: the default of max_rows.
DefaultMaxRows == 100

\* python_executor.py:42 and :173: the default of max_output_length and the
\* longest code the safety check lets through.
DefaultMaxOutputLength == 10000
MaxCodeLength == 50000

\* FileEditor.max_file_size, by default.
max_file_size == 1048576

\* The names tools register under (calculator.py:32, database.py:53).
ToolNames == {"calculator", "database"}

\* A tool object: its name attribute and which object it is.  Any BaseTool
\* subclass may be registered under a name, so a tool is not tied to the
\* behaviour of the shipped Calculator or DatabaseTool.
Tools == [name : ToolNames, id : 1..NumInstances]

\* Something handed to add_tool that is no BaseTool.
NotATool == [name |-> "calculator", id |-> 0]

\* Argument mappings, by how a tool reacts to them:
\*   "ok"        validate_args accepts, execute returns a value string
\*               (calculator, expression "2+2")
\*   "fault"     validate_args accepts, the tool's own logic faults and
\*               execute catches it and returns an error string
\*               (calculator.py:124-131, expression "1/0"; database.py:164)
\*   "xraise"    validate_args accepts, execute raises (a BaseTool subclass
\*               that does not catch its own faults)
\*   "invalid"   validate_args returns False (calculator.py:78-80, no
\*               expression); execute, if called anyway, returns an error
\*               string (the empty expression is a syntax error)
\*   "invalid_x" validate_args returns False (calculator.py:83-85, the
\*               expression is no string); execute, if called anyway, raises
\*               (calculator.py:109, .strip() outside the try)
\*   "vraise"    validate_args itself raises (database.py:114, db_type is no
\*               string); execute, if called anyway, returns an error string
\*               (database.py:164-165)
ArgKinds == {"ok", "fault", "xraise", "invalid", "invalid_x", "vraise"}

\* BaseTool.validate_args and its overrides: "true", "false" or "raise".
validate_args(tool, args) ==
  IF args \in {"invalid", "invalid_x"} THEN "false"
  ELSE IF args = "vraise" THEN "raise"
  ELSE "true"

\* BaseTool.execute as the tools implement it: either raises, or returns a
\* string, which is a value or the text of an error the tool caught itself.
execute(tool, args) ==
  IF args \in {"xraise", "invalid_x"}
  THEN [raised |-> TRUE, text |-> "exception", by |-> tool]
  ELSE IF args = "ok"
  THEN [raised |-> FALSE, text |-> "value", by |-> tool]
  ELSE [raised |-> FALSE, text |-> "error_string", by |-> tool]

\* ------------------------------------------------------------------ state

VARIABLES
  tools,              \* ToolCollection._tools: name -> tool object
  tool_stats,         \* ToolCollection._tool_stats: name -> counters
  inflight,           \* a dispatch suspended in `await tool.execute(...)`
  ret,                \* what the last registry operation returned
  invoked,            \* the tool methods the last handler called, in order
  pc,                 \* where the agent's run() is
  nsteps,             \* len(plan["steps"]) of the current run
  i,                  \* steps of the plan the loop has gone past
  results,            \* _execute_plan's results list
  current_step,       \* BaseAgent.current_step
  max_steps,          \* BaseAgent.max_steps
  execution_history,  \* BaseAgent.execution_history
  clock,              \* run() invocations so far; stamps the records
  run_ret,            \* what the last run() returned
  dispatched,         \* the steps of this run whose tool.execute was called
  sql_in,             \* the sql argument the caller passes to the database tool
  table_in,           \* the table argument the caller passes to describe
  drivers,            \* which of the optional drivers could be imported
  current_connection, \* DatabaseTool.current_connection
  current_db_type,    \* DatabaseTool.current_db_type
  open_conns,         \* connections this tool opened that are not closed
  db_ret,             \* what the last DatabaseTool.execute returned
  sent,               \* the statements the last execute handed to a cursor
  max_rows,           \* DatabaseTool.max_rows
  rows_in,            \* the rows a statement yields when it yields any
  shown,              \* the table the last result renders, if it renders one
  closed,             \* how close() went, if the last execute called it
  code_in,            \* the code argument the caller passes to the sandbox
  mode_in,            \* the mode argument
  timeout_in,         \* the timeout in force: "finite", or "none" (None)
  capture_in,         \* the capture_output argument
  allow_imports,      \* PythonExecutor.allow_imports
  max_output_length,  \* PythonExecutor.max_output_length
  execution_count,    \* PythonExecutor.execution_count
  sbx_pc,             \* "idle", or "joining": execute waits in thread.join
  worker,             \* the thread the waiting execute started
  abandoned,          \* threads left running by executions that timed out
  sys_stdout,         \* where sys.stdout and sys.stderr point
  capture,            \* the lengths of the two StringIO captures
  stages,             \* the stages of the pipeline the last execute entered
  sbx_ret,            \* what the last PythonExecutor.execute returned
  expr_in,            \* the expression the caller passes to the calculator
  precision_in,       \* the precision argument
  calc_log,           \* what Calculator.execute was given and returned, in order
  fs,                 \* the files that exist: absolute path -> content
  reads,              \* the paths whose content the last FileEditor.execute read
  writes,             \* the paths it wrote, overwrote or removed
  file_ret            \* what the last FileEditor.execute returned

dbVars == <<sql_in, table_in, drivers, current_connection, current_db_type,
            open_conns, db_ret, sent, max_rows, rows_in, shown,
            closed>>

sbxVars == <<code_in, mode_in, timeout_in, capture_in, allow_imports,
             max_output_length, execution_count, sbx_pc, worker, abandoned,
             sys_stdout, capture, stages, sbx_ret>>

calcVars == <<expr_in, precision_in, calc_log>>

fileVars == <<fs, reads, writes, file_ret>>

toolVars == <<dbVars, sbxVars, calcVars, fileVars>>

vars == <<tools, tool_stats, inflight, ret, invoked, pc, nsteps, i, results,
          current_step, max_steps, execution_history, clock, run_ret,
          dispatched, toolVars>>

regVars == <<tools, tool_stats, inflight, ret>>
agentVars == <<pc, nsteps, i, results, current_step, max_steps,
               execution_history, clock, run_ret, dispatched>>

\* ------------------------------------------------------- the tool registry

ZeroStats == [calls |-> 0, successes |-> 0, failures |-> 0]

Ret(kind, by) == [kind |-> kind, by |-> by]

\* ToolCollection.get_tool: the tool, or nothing.
get_tool(tool_name) ==
  IF tool_name \in DOMAIN tools THEN <<tools[tool_name]>> ELSE <<>>

\* A dispatch in flight holds the stats dict it looked up; once the entry is
\* replaced or deleted, its later updates go to a dict nobody reads.
Orphan(name) ==
  IF inflight # <<>> /\ inflight[1].name = name
  THEN <<[inflight[1] EXCEPT !.live = FALSE]>>
  ELSE inflight

\* add_tool as it would be if an overwrite kept the old counters.
PutTool_keepsStats(tool) ==
  /\ tools' = [n \in DOMAIN tools \cup {tool.name} |->
                 IF n = tool.name THEN tool ELSE tools[n]]
  /\ tool_stats' = [n \in DOMAIN tool_stats \cup {tool.name} |->
                      IF n \in DOMAIN tool_stats THEN tool_stats[n] ELSE ZeroStats]

\* ToolCollection.add_tool, lines 124-130: the tool and fresh counters are
\* stored under the tool's name.
PutTool(tool) ==
  /\ tools' = [n \in DOMAIN tools \cup {tool.name} |->
                 IF n = tool.name THEN tool ELSE tools[n]]
  /\ tool_stats' = [n \in DOMAIN tool_stats \cup {tool.name} |->
                      IF n = tool.name THEN ZeroStats ELSE tool_stats[n]]

\* ToolCollection.add_tool.  It returns nothing; what it prints tells a
\* replacement ("replaced") from a first registration ("registered").
add_tool(tool) ==
  /\ IF tool \notin Tools
     THEN /\ ret' = Ret("TypeError", <<>>)
          /\ UNCHANGED <<tools, tool_stats, inflight>>
     ELSE /\ PutTool(tool)
          /\ inflight' = Orphan(tool.name)
          /\ ret' = Ret(IF tool.name \in DOMAIN tools THEN "replaced"
                        ELSE "registered", <<>>)
  /\ invoked' = <<>>
  /\ UNCHANGED agentVars
  /\ UNCHANGED toolVars

\* A remove_tool that forgot the counters of the tool it removes.
remove_tool_keepsStats(tool_name) ==
  /\ IF tool_name \in DOMAIN tools
     THEN /\ tools' = [n \in DOMAIN tools \ {tool_name} |-> tools[n]]
          /\ inflight' = Orphan(tool_name)
          /\ ret' = Ret("True", <<>>)
          /\ UNCHANGED tool_stats
     ELSE /\ ret' = Ret("False", <<>>)
          /\ UNCHANGED <<tools, tool_stats, inflight>>
  /\ invoked' = <<>>
  /\ UNCHANGED agentVars
  /\ UNCHANGED toolVars

\* ToolCollection.remove_tool
remove_tool(tool_name) ==
  /\ IF tool_name \in DOMAIN tools
     THEN /\ tools' = [n \in DOMAIN tools \ {tool_name} |-> tools[n]]
          /\ tool_stats' = [n \in DOMAIN tool_stats \ {tool_name} |-> tool_stats[n]]
          /\ inflight' = Orphan(tool_name)
          /\ ret' = Ret("True", <<>>)
     ELSE /\ ret' = Ret("False", <<>>)
          /\ UNCHANGED <<tools, tool_stats, inflight>>
  /\ invoked' = <<>>
  /\ UNCHANGED agentVars
  /\ UNCHANGED toolVars

Bump(stats, name, field) ==
  [stats EXCEPT ![name][field] = stats[name][field] + 1]

\* What the synchronous part of a dispatch finds: no such tool ("missing"),
\* or the verdict of the tool's validate_args.
Verdict(tool_name, args) ==
  IF get_tool(tool_name) = <<>> THEN "missing"
  ELSE validate_args(tools[tool_name], args)

\* A dispatch that counted unknown names as failed calls.
StatsAfterValidate_countsMissing(tool_name, verdict) ==
  IF verdict = "missing"
  THEN [n \in DOMAIN tool_stats \cup {tool_name} |->
          IF n = tool_name THEN [calls |-> 1, successes |-> 0, failures |-> 1]
          ELSE tool_stats[n]]
  ELSE IF verdict = "true" THEN Bump(tool_stats, tool_name, "calls")
  ELSE Bump(Bump(tool_stats, tool_name, "calls"), tool_name, "failures")

\* A dispatch that forgot to count a refused validation as a failure.
StatsAfterValidate_dropsRefusal(tool_name, verdict) ==
  IF verdict = "missing" THEN tool_stats
  ELSE IF verdict \in {"true", "false"} THEN Bump(tool_stats, tool_name, "calls")
  ELSE Bump(Bump(tool_stats, tool_name, "calls"), tool_name, "failures")

\* A dispatch that asked validate_args outside its try block: a raise of it
\* would leave the call counted and nothing else.
StatsAfterValidate_raiseUncounted(tool_name, verdict) ==
  IF verdict = "missing" THEN tool_stats
  ELSE IF verdict \in {"true", "raise"} THEN Bump(tool_stats, tool_name, "calls")
  ELSE Bump(Bump(tool_stats, tool_name, "calls"), tool_name, "failures")

\* The counters after the synchronous part of a dispatch: an unknown name
\* touches nothing; otherwise calls is counted first, then validate_args is
\* asked, and a refusal or a raise of it counts as a failure.
StatsAfterValidate(tool_name, verdict) ==
  IF verdict = "missing" THEN tool_stats
  ELSE IF verdict = "true" THEN Bump(tool_stats, tool_name, "calls")
  ELSE Bump(Bump(tool_stats, tool_name, "calls"), tool_name, "failures")

\* ToolCollection.execute_tool, up to the point where it awaits tool.execute.
execute_tool(tool_name, args) ==
  /\ inflight = <<>>
  /\ tool_name \in DOMAIN tools => tool_stats[tool_name].calls < MaxCalls
  /\ LET tool == get_tool(tool_name)
         verdict == Verdict(tool_name, args) IN
     /\ tool_stats' = StatsAfterValidate(tool_name, verdict)
     /\ IF verdict = "missing"
        THEN /\ ret' = Ret("not_found", <<>>)
             /\ invoked' = <<>>
             /\ inflight' = <<>>
        ELSE IF verdict = "false"
        THEN /\ ret' = Ret("validation_failed", <<>>)
             /\ invoked' = << <<"validate_args", tool[1]>> >>
             /\ inflight' = <<>>
        ELSE IF verdict = "raise"
        THEN /\ ret' = Ret("exec_failed", <<>>)
             /\ invoked' = << <<"validate_args", tool[1]>> >>
             /\ inflight' = <<>>
        ELSE /\ ret' = Ret("pending", <<>>)
             /\ invoked' = << <<"validate_args", tool[1]>>,
                              <<"execute", tool[1]>> >>
             /\ inflight' = <<[name |-> tool_name, tool |-> tool[1],
                               args |-> args, live |-> TRUE]>>
  /\ UNCHANGED tools
  /\ UNCHANGED agentVars
  /\ UNCHANGED toolVars

\* A dispatch whose except branch forgot to count the failure.
StatsAfterExecute_dropsFailure(d, r) ==
  IF ~d.live \/ r.raised THEN tool_stats
  ELSE Bump(tool_stats, d.name, "successes")

\* The counters after tool.execute came back to the dispatch that awaited it.
StatsAfterExecute(d, r) ==
  IF ~d.live THEN tool_stats
  ELSE IF r.raised THEN Bump(tool_stats, d.name, "failures")
  ELSE Bump(tool_stats, d.name, "successes")

\* ToolCollection.execute_tool, from the return of tool.execute on.
execute_tool_done ==
  /\ inflight # <<>>
  /\ LET d == inflight[1]
         r == execute(d.tool, d.args) IN
     /\ tool_stats' = StatsAfterExecute(d, r)
     /\ ret' = IF r.raised THEN Ret("exec_failed", <<>>)
               ELSE Ret(r.text, <<r.by>>)
  /\ inflight' = <<>>
  /\ UNCHANGED <<tools, invoked>>
  /\ UNCHANGED agentVars
  /\ UNCHANGED toolVars

\* ------------------------------------------------------------- the agent

NoName == "<none>"            \* step.get("tool") is None or empty
Unhashable == "<unhashable>"  \* step["tool"] is a list or a mapping

\* One element of plan["steps"]: a mapping, or something with no .get.
Steps == [shape : {"dict"}, tool : ToolNames \cup {NoName, Unhashable}, args : ArgKinds]
           \cup {[shape |-> "nondict", tool |-> NoName, args |-> "ok"]}

StepRes(raised, mark, detail, name, called) ==
  [raised |-> raised, mark |-> mark, detail |-> detail, name |-> name,
   called |-> called]

\* BaseAgent._execute_step
execute_step(step) ==
  LET tool_name == step.tool IN
  IF tool_name = NoName
  THEN StepRes(FALSE, "err", "missing_tool", NoName, <<>>)
  ELSE IF tool_name = Unhashable
  THEN StepRes(TRUE, "", "TypeError", NoName, <<>>)
  ELSE LET tool == get_tool(tool_name) IN
       IF tool = <<>>
       THEN StepRes(FALSE, "err", "not_found", tool_name, <<>>)
       ELSE LET r == execute(tool[1], step.args) IN
            IF r.raised
            THEN StepRes(FALSE, "err", "exec_failed", tool_name, tool)
            ELSE StepRes(FALSE, "ok", r.text, tool_name, tool)

Line(kind, n, mark, detail, name) ==
  [kind |-> kind, n |-> n, mark |-> mark, detail |-> detail, name |-> name]

NoticeLine == Line("notice", 0, "", "", NoName)

\* A _record_execution that keeps no record of a run on an agent that has
\* executed no step.
record_execution_skipsIdle(history, record) ==
  IF record.steps_executed = 0 THEN history ELSE Append(history, record)

\* A _record_execution that never cuts the history.
record_execution_noCut(history, record) == Append(history, record)

\* A _record_execution that cuts the history to its oldest records.
record_execution_keepsOldest(history, record) ==
  LET appended == Append(history, record) IN
  IF Len(appended) > HistoryCap
  THEN SubSeq(appended, 1, HistoryKeep)
  ELSE appended

\* BaseAgent._record_execution
record_execution(history, record) ==
  LET appended == Append(history, record) IN
  IF Len(appended) > HistoryCap
  THEN SubSeq(appended, Len(appended) - HistoryKeep + 1, Len(appended))
  ELSE appended

\* The budget test off by one.
BudgetReached_offByOne == current_step > max_steps

\* The loop's test of the budget (agent.py:139).
BudgetReached == current_step >= max_steps

\* A loop that never counted its steps.
NextStepCount_never(r) == current_step

\* current_step after a step: counted unless the step raised (agent.py:150).
NextStepCount(r) == IF r.raised THEN current_step ELSE current_step + 1

\* A run() that records the run in a finally clause, failed or not.
run_recordsFailure(n, planned) ==
  /\ pc = "idle"
  /\ clock < MaxRuns
  /\ clock' = clock + 1
  /\ IF planned
     THEN /\ pc' = "executing"
          /\ nsteps' = n
          /\ i' = 0
          /\ results' = <<>>
          /\ dispatched' = {}
          /\ UNCHANGED <<run_ret, execution_history>>
     ELSE /\ run_ret' = [kind |-> "failed", lines |-> <<>>]
          /\ execution_history' =
               Append(execution_history,
                      [timestamp |-> clock + 1, steps_executed |-> current_step])
          /\ UNCHANGED <<pc, nsteps, i, results, dispatched>>
  /\ invoked' = <<>>
  /\ UNCHANGED <<current_step, max_steps>>
  /\ UNCHANGED regVars
  /\ UNCHANGED toolVars

\* BaseAgent.run up to the first step: the plan is generated, or that raises.
run(n, planned) ==
  /\ pc = "idle"
  /\ clock < MaxRuns
  /\ clock' = clock + 1
  /\ IF planned
     THEN /\ pc' = "executing"
          /\ nsteps' = n
          /\ i' = 0
          /\ results' = <<>>
          /\ dispatched' = {}
          /\ UNCHANGED run_ret
     ELSE /\ run_ret' = [kind |-> "failed", lines |-> <<>>]
          /\ UNCHANGED <<pc, nsteps, i, results, dispatched>>
  /\ invoked' = <<>>
  /\ UNCHANGED <<current_step, max_steps, execution_history>>
  /\ UNCHANGED regVars
  /\ UNCHANGED toolVars

\* One pass of the for loop of BaseAgent._execute_plan.
execute_plan_iter(step) ==
  /\ pc = "executing"
  /\ i < nsteps
  /\ IF BudgetReached
     THEN /\ results' = Append(results, NoticeLine)
          /\ pc' = "halted"
          /\ invoked' = <<>>
          /\ UNCHANGED <<i, current_step, run_ret, dispatched>>
     ELSE IF step.shape = "nondict"
     THEN \* step.get raises outside the try; run() catches it
          /\ pc' = "idle"
          /\ run_ret' = [kind |-> "failed", lines |-> <<>>]
          /\ invoked' = <<>>
          /\ UNCHANGED <<i, results, current_step, dispatched>>
     ELSE LET r == execute_step(step) IN
          /\ i' = i + 1
          /\ invoked' = [k \in 1..Len(r.called) |-> <<"execute", r.called[k]>>]
          /\ dispatched' = IF r.called # <<>> THEN dispatched \cup {i + 1}
                           ELSE dispatched
          /\ results' = Append(results,
                 IF r.raised THEN Line("failed", i + 1, "", r.detail, r.name)
                 ELSE Line("step", i + 1, r.mark, r.detail, r.name))
          /\ current_step' = NextStepCount(r)
          /\ UNCHANGED <<pc, run_ret>>
  /\ UNCHANGED <<nsteps, max_steps, execution_history, clock>>
  /\ UNCHANGED regVars
  /\ UNCHANGED toolVars

\* BaseAgent.run after _execute_plan returned: record, return the transcript.
run_end ==
  /\ \/ pc = "halted"
     \/ pc = "executing" /\ i = nsteps
  /\ execution_history' =
       record_execution(execution_history,
                        [timestamp |-> clock, steps_executed |-> current_step])
  /\ run_ret' = [kind |-> "transcript", lines |-> results]
  /\ pc' = "idle"
  /\ invoked' = <<>>
  /\ UNCHANGED <<nsteps, i, results, current_step, max_steps, clock, dispatched>>
  /\ UNCHANGED regVars
  /\ UNCHANGED toolVars

\* ------------------------------------------------------ the database tool

\* A text is the sequence of its lexemes.  The lexemes are chosen so that no
\* keyword and no marker the filter looks for arises from joining two of
\* them:
\*   "select", "SELECT"   the read-only keyword, in two spellings
\*   "drop", "DROP"       a word that contains a forbidden keyword
\*   "w"                  any other run of word characters
\*   " ", "\n"            a blank, a line break
\*   ";"                  the statement separator
\*   "--", "/*", "*/"     the comment markers
\*   "(", ")", "'"        other punctuation
Blank == {" ", "\n"}
Punctuation == {";", "--", "/*", "*/", "(", ")", "'"}

\* The texts a caller may pass as sql.
SqlLexemes == {"select", "SELECT", "drop", "DROP", "w", " ", "\n", ";",
               "--", "/*", "*/"}
Queries == UNION {[1..n -> SqlLexemes] : n \in 0..MaxSqlLen}

\* Something passed where a string is expected.
NotAString == "<not-a-string>"

\* str.lower on one lexeme.
Lower(lexeme) ==
  IF lexeme = "SELECT" THEN "select"
  ELSE IF lexeme = "DROP" THEN "drop"
  ELSE IF lexeme = "SQLite" THEN "sqlite"
  ELSE IF lexeme = "IMPORT OS" THEN "import os"
  ELSE lexeme

\* str.lower and str.strip on a text.
lower(text) == [k \in 1..Len(text) |-> Lower(text[k])]

RECURSIVE lstrip(_)
lstrip(text) ==
  IF text # <<>> /\ Head(text) \in Blank THEN lstrip(Tail(text)) ELSE text

RECURSIVE rstrip(_)
rstrip(text) ==
  IF text # <<>> /\ text[Len(text)] \in Blank
  THEN rstrip(SubSeq(text, 1, Len(text) - 1))
  ELSE text

strip(text) == rstrip(lstrip(text))

\* DatabaseTool.forbidden_keywords (database.py:82-86)
forbidden_keywords ==
  {"insert", "update", "delete", "drop", "create", "alter", "truncate",
   "grant", "revoke", "commit", "rollback", "exec", "execute", "sp_",
   "xp_", "cmdshell", "bulk", "openrowset", "opendatasource"}

\* A filter without the test of the first keyword.
StartsWithSelect_anything(sql_lower) == TRUE

\* sql_lower.startswith('select')
StartsWithSelect(sql_lower) == sql_lower # <<>> /\ sql_lower[1] = "select"

\* A filter that looked for a forbidden keyword only where the text begins.
HasForbidden_atStartOnly(sql_lower) ==
  sql_lower # <<>> /\ sql_lower[1] \in forbidden_keywords

\* `forbidden in sql_lower` for some forbidden keyword: a substring test
\* over the whole text.
HasForbidden(sql_lower) ==
  \E k \in 1..Len(sql_lower) : sql_lower[k] \in forbidden_keywords

\* \w matches inside a lexeme that is a run of word characters.
IsWord(lexeme) == lexeme \notin Blank \cup Punctuation

\* re.search over dangerous_patterns: '--', '/\*', '\*/' and ';.*\w', in
\* which '.' matches everything but a line break.
MatchesDangerous(sql_lower) ==
  \/ \E k \in 1..Len(sql_lower) : sql_lower[k] \in {"--", "/*", "*/"}
  \/ \E p \in 1..Len(sql_lower), q \in 1..Len(sql_lower) :
       /\ p < q
       /\ sql_lower[p] = ";"
       /\ IsWord(sql_lower[q])
       /\ \A r \in (p + 1)..(q - 1) : sql_lower[r] # "\n"

\* DatabaseTool._is_safe_sql
is_safe_sql(sql) ==
  LET sql_lower == strip(lower(sql)) IN
  /\ StartsWithSelect(sql_lower)
  /\ ~HasForbidden(sql_lower)
  /\ ~MatchesDangerous(sql_lower)

\* How a cursor reacts to a statement: rows, no row, or it raises.
DriverOutcomes == {"rows", "no_rows", "raises"}

\* The database types a caller may name in connect.
\* kwargs.get('db_type', '') of a call that passes no db_type.
NoDbType == ""

DbTypeInputs ==
  {"sqlite", "SQLite", "mysql", "postgresql", "oracle", NotAString, NoDbType}

\* The statements the tool builds itself (database.py:244-248, 270-283).
ShowTablesSql(db_type) ==
  IF db_type = "mysql" THEN <<"w", " ", "w">>
  ELSE <<"SELECT", " ", "w", " ", "w", "'", "w", "'">>

Pragma(table) == <<"w", " ", "w", "(">> \o table \o <<")">>

DescribeSql(db_type, table) ==
  IF db_type = "mysql" THEN <<"w", " ">> \o table
  ELSE <<"SELECT", " ", "w", " ", "w", "'">> \o table \o <<"'">>

\* A result string of the tool: the operation, which message it is, and the
\* part of the caller's arguments the message quotes.
DbRet(op, kind, mentions) == [op |-> op, kind |-> kind, mentions |-> mentions]

\* The table a result renders: its data rows, the note under them ("more":
\* the first max_rows rows, more may exist; "count": the row count) and the
\* number the note states.
Table(rows, note, stated) == [rows |-> rows, note |-> note, stated |-> stated]
NoTable == Table(0, "none", 0)

\* cursor.fetchmany(size) and cursor.fetchall() of a statement that yields
\* `available` rows: how many rows come back.
fetchmany(available, size) == IF available < size THEN available ELSE size
fetchall(available) == available

\* The rows the driver has for a statement it reacts to with `outcome`.
Available(outcome) == IF outcome = "rows" THEN rows_in ELSE 0

\* DatabaseTool._format_query_result for a list of `rows` rows.
format_query_result(rows) ==
  IF rows = 0 THEN NoTable
  ELSE IF rows >= max_rows THEN Table(rows, "more", max_rows)
  ELSE Table(rows, "count", rows)

\* DatabaseTool._handle_query: which message it returns and what it hands
\* to the cursor, for a driver that reacts with `outcome`.
\* A _handle_query that looks at the statement before it looks for a
\* connection.
handle_query_filterFirst(sql, outcome) ==
  IF ~is_safe_sql(strip(sql))
  THEN [kind |-> "unsafe", sent |-> <<>>, shown |-> NoTable]
  ELSE IF current_connection = <<>>
  THEN [kind |-> "not_connected", sent |-> <<>>, shown |-> NoTable]
  ELSE [kind |-> "table", sent |-> <<strip(sql)>>, shown |-> NoTable]

handle_query(sql, outcome) ==
  IF current_connection = <<>>
  THEN [kind |-> "not_connected", sent |-> <<>>, shown |-> NoTable]
  ELSE LET stripped == strip(sql) IN
       IF ~is_safe_sql(stripped)
       THEN [kind |-> "unsafe", sent |-> <<>>, shown |-> NoTable]
       ELSE IF current_db_type \notin {"sqlite", "mysql", "postgresql"}
       THEN [kind |-> "unsupported_type", sent |-> <<>>, shown |-> NoTable]
       ELSE [kind |-> IF outcome = "raises" THEN "query_failed"
                      ELSE IF outcome = "no_rows" THEN "no_data"
                      ELSE "table",
             sent |-> <<stripped>>,
             shown |-> format_query_result(
                         fetchmany(Available(outcome), max_rows))]

\* A _handle_disconnect that treats a missing connection as an error, the
\* way the query operations do.
handle_disconnect_strict ==
  IF current_connection = <<>>
  THEN [kind |-> "not_connected", conn |-> <<>>, type |-> "none",
        open |-> open_conns]
  ELSE IF current_connection[1].closes
  THEN [kind |-> "disconnected", conn |-> <<>>, type |-> "none",
        open |-> open_conns - 1]
  ELSE [kind |-> "disconnect_warning", conn |-> current_connection,
        type |-> current_db_type, open |-> open_conns]

\* A _handle_disconnect whose close() returns but which keeps the fields.
handle_disconnect_keeps ==
  IF current_connection = <<>>
  THEN [kind |-> "no_connection", conn |-> <<>>, type |-> "none",
        open |-> open_conns]
  ELSE IF current_connection[1].closes
  THEN [kind |-> "disconnected", conn |-> current_connection,
        type |-> current_db_type, open |-> open_conns - 1]
  ELSE [kind |-> "disconnect_warning", conn |-> current_connection,
        type |-> current_db_type, open |-> open_conns]

\* DatabaseTool._handle_disconnect: the message and the connection state it
\* leaves.  A close() that raises leaves everything as it was.
handle_disconnect ==
  IF current_connection = <<>>
  THEN [kind |-> "no_connection", conn |-> <<>>, type |-> "none",
        open |-> open_conns]
  ELSE IF current_connection[1].closes
  THEN [kind |-> "disconnected", conn |-> <<>>, type |-> "none",
        open |-> open_conns - 1]
  ELSE [kind |-> "disconnect_warning", conn |-> current_connection,
        type |-> current_db_type, open |-> open_conns]

\* How current_connection.close() went in a _handle_disconnect of that
\* result: "none" if there was nothing to close.
Closing(kind) ==
  CASE kind = "disconnected" -> "closed"
    [] kind = "disconnect_warning" -> "raised"
    [] OTHER -> "none"

\* The sign a message of the database tool begins with: a cross for a
\* refused or failed operation, and for _handle_disconnect an information
\* sign, a check mark or a warning sign.
ErrorKinds ==
  {"unsupported_action", "op_failed", "connect_failed", "not_connected",
   "unsafe", "unsupported_type", "query_failed", "need_table",
   "no_such_table", "describe_failed"}

Mark(kind) ==
  CASE kind \in ErrorKinds -> "error"
    [] kind = "no_connection" -> "info"
    [] kind \in {"connected", "disconnected"} -> "ok"
    [] kind = "disconnect_warning" -> "warning"
    [] OTHER -> "report"

\* What no operation of the database tool touches.
DbFrame ==
  /\ invoked' = <<>>
  /\ UNCHANGED <<sql_in, table_in, drivers, max_rows, rows_in>>
  /\ UNCHANGED <<regVars, agentVars, sbxVars, calcVars, fileVars>>

\* execute(action='connect', db_type=...): `closes` tells whether close() of
\* the new connection will succeed, `fails` whether the driver refuses.
db_connect(db_type, closes, fails) ==
  /\ open_conns < MaxConns
  /\ IF db_type = NotAString
     THEN \* ''.lower() is not reached: the AttributeError ends in execute
          /\ db_ret' = DbRet("connect", "op_failed", <<>>)
          /\ closed' = "none"
          /\ UNCHANGED <<current_connection, current_db_type, open_conns>>
     ELSE LET t == Lower(db_type)
              d == handle_disconnect
              connects == (t = "sqlite" \/ t \in drivers) /\ ~fails IN
          /\ closed' = Closing(d.kind)
          /\ IF connects
             THEN /\ current_connection' = <<[closes |-> closes]>>
                  /\ current_db_type' = t
                  /\ open_conns' = d.open + 1
                  /\ db_ret' = DbRet("connect", "connected", <<t>>)
             ELSE /\ current_connection' = d.conn
                  /\ current_db_type' = d.type
                  /\ open_conns' = d.open
                  /\ db_ret' = DbRet("connect", "connect_failed", <<>>)
  /\ sent' = <<>>
  /\ shown' = NoTable
  /\ DbFrame

\* execute(action='disconnect')
db_disconnect ==
  /\ LET d == handle_disconnect IN
     /\ current_connection' = d.conn
     /\ current_db_type' = d.type
     /\ open_conns' = d.open
     /\ db_ret' = DbRet("disconnect", d.kind, <<>>)
     /\ closed' = Closing(d.kind)
  /\ sent' = <<>>
  /\ shown' = NoTable
  /\ DbFrame

\* execute(action='query', sql=sql_in)
db_query(outcome) ==
  /\ LET r == handle_query(sql_in, outcome) IN
     /\ db_ret' = DbRet("query", r.kind, <<>>)
     /\ sent' = r.sent
     /\ shown' = r.shown
  /\ UNCHANGED <<current_connection, current_db_type, open_conns>>
  /\ closed' = "none"
  /\ DbFrame

\* execute(action='show_tables')
db_show_tables(outcome) ==
  /\ IF current_connection = <<>>
     THEN /\ db_ret' = DbRet("show_tables", "not_connected", <<>>)
          /\ sent' = <<>>
          /\ shown' = NoTable
     ELSE LET r == handle_query(ShowTablesSql(current_db_type), outcome) IN
          /\ db_ret' = DbRet("show_tables", r.kind, <<>>)
          /\ sent' = r.sent
          /\ shown' = r.shown
  /\ UNCHANGED <<current_connection, current_db_type, open_conns>>
  /\ closed' = "none"
  /\ DbFrame

\* execute(action='describe', table=table_in)
db_describe(outcome) ==
  /\ IF current_connection = <<>>
     THEN /\ db_ret' = DbRet("describe", "not_connected", <<>>)
          /\ sent' = <<>>
          /\ shown' = NoTable
     ELSE IF table_in = <<>>
     THEN /\ db_ret' = DbRet("describe", "need_table", <<>>)
          /\ sent' = <<>>
          /\ shown' = NoTable
     ELSE IF current_db_type = "sqlite"
     THEN /\ sent' = <<Pragma(table_in)>>
          /\ shown' = format_query_result(fetchall(Available(outcome)))
          /\ db_ret' = IF outcome = "raises"
                       THEN DbRet("describe", "describe_failed", <<>>)
                       ELSE IF outcome = "no_rows"
                       THEN DbRet("describe", "no_such_table", table_in)
                       ELSE DbRet("describe", "table", <<>>)
     ELSE LET r == handle_query(DescribeSql(current_db_type, table_in), outcome) IN
          /\ db_ret' = DbRet("describe", r.kind, <<>>)
          /\ sent' = r.sent
          /\ shown' = r.shown
  /\ UNCHANGED <<current_connection, current_db_type, open_conns>>
  /\ closed' = "none"
  /\ DbFrame

\* execute(action='status')
db_status ==
  /\ db_ret' = DbRet("status", IF current_connection = <<>> THEN "status_none"
                               ELSE "status_connected", <<>>)
  /\ sent' = <<>>
  /\ shown' = NoTable
  /\ UNCHANGED <<current_connection, current_db_type, open_conns>>
  /\ closed' = "none"
  /\ DbFrame

\* execute with any other action
db_unsupported ==
  /\ db_ret' = DbRet("other", "unsupported_action", <<"w">>)
  /\ sent' = <<>>
  /\ shown' = NoTable
  /\ UNCHANGED <<current_connection, current_db_type, open_conns>>
  /\ closed' = "none"
  /\ DbFrame

\* ------------------------------------------------------- the code sandbox

\* A code string, by what the pipeline reads of it: a lexeme it contains,
\* the length of its text without the surrounding blanks (body), and how
\* many blanks surround it (pad):
\*   "x"            nothing the safety check looks for
\*   "import os"    a dangerous keyword, also spelled "IMPORT OS"
\*   "import math"  an import statement of a harmless module
\* and which grammar it belongs to: an expression, statements, or neither.
CodeLexemes == {"x", "import os", "IMPORT OS", "import math"}
CodeSizes == {[body |-> 1, pad |-> 0],
              [body |-> MaxCodeLength, pad |-> 0],
              [body |-> MaxCodeLength, pad |-> 1],
              [body |-> MaxCodeLength + 1, pad |-> 0]}
Grammars == {"expression", "statements", "neither"}
Codes == {[lexeme |-> l, body |-> z.body, pad |-> z.pad, grammar |-> g] :
            l \in CodeLexemes, z \in CodeSizes, g \in Grammars}

Modes == {"exec", "eval", "bogus"}

\* code.strip() and len(code)
StripCode(code) == [code EXCEPT !.pad = 0]
CodeLen(code) == code.body + code.pad

\* The dangerous_keywords of _check_code_safety (python_executor.py:156-161).
dangerous_keywords ==
  {"import os", "import subprocess", "import shutil", "import socket",
   "from os", "from subprocess", "from shutil", "from socket",
   "__import__", "eval(", "exec(", "compile(", "open(",
   "file(", "input(", "raw_input("}

\* A safety check that compared the code as it is spelled.
IsDangerous_caseSensitive(code) == code.lexeme \in dangerous_keywords

\* `keyword in code_lower` for some dangerous keyword.
IsDangerous(code) == Lower(code.lexeme) \in dangerous_keywords

\* 'import ' in code_lower or 'from ' in code_lower
HasImport(code) == Lower(code.lexeme) \in {"import os", "import math"}

\* PythonExecutor._check_code_safety: TRUE when the code passes.
check_code_safety(code) ==
  /\ ~IsDangerous(code)
  /\ ~(~allow_imports /\ HasImport(code))
  /\ ~(CodeLen(code) > MaxCodeLength)

\* PythonExecutor._check_syntax: ast.parse(code, mode=mode) succeeds.  A mode
\* ast.parse does not know makes it raise, which counts as a failed check.
check_syntax(code, mode) ==
  \/ mode = "exec" /\ code.grammar \in {"expression", "statements"}
  \/ mode = "eval" /\ code.grammar = "expression"

\* What the code does once it runs to its end, and the output lengths it
\* may print on the way.  The code ends with a value or by raising; what it
\* raises may be any exception it can reach, one named TimeoutError and one
\* that is not an Exception (SystemExit) included.
RunOutcomes == {"value", "Exception", "TimeoutError", "SystemExit"}

\* The except clause of the worker (python_executor.py:343-344) keeps what it
\* catches; an exception that is not an Exception ends the thread unseen.
Caught(outcome) ==
  IF outcome \in {"Exception", "TimeoutError"} THEN outcome ELSE "none"
OutLens == {0, 1, DefaultMaxOutputLength + 1}
ErrLens == {0, DefaultMaxOutputLength + 1}

SbxRet(kind, stdout, stderr, truncated) ==
  [kind |-> kind, stdout |-> stdout, stderr |-> stderr, truncated |-> truncated]

\* An execute whose generic except clause came first.
HandlerFor_genericFirst(exc) == "exec_failed"

\* The except clauses of execute (python_executor.py:137-142).
HandlerFor(exc) == IF exc = "TimeoutError" THEN "timeout" ELSE "exec_failed"

\* What no step of the sandbox touches.
SbxFrame ==
  /\ invoked' = <<>>
  /\ UNCHANGED <<code_in, mode_in, timeout_in, capture_in, allow_imports,
                 max_output_length>>
  /\ UNCHANGED <<regVars, agentVars, dbVars, calcVars, fileVars>>

\* What printing adds to the captures, if the streams are redirected.
Printed(out, err) ==
  IF sys_stdout = "capture"
  THEN [out |-> capture.out + out, err |-> capture.err + err]
  ELSE capture

\* PythonExecutor.execute up to thread.join: the safety check, the syntax
\* check, the redirection of the streams and the start of the worker.
sbx_execute ==
  /\ sbx_pc = "idle"
  /\ execution_count < MaxExecs
  /\ execution_count' = execution_count + 1
  /\ LET code == StripCode(code_in) IN
     IF ~check_code_safety(code)
     THEN /\ stages' = <<"safety">>
          /\ sbx_ret' = SbxRet("unsafe", 0, 0, FALSE)
          /\ UNCHANGED <<sbx_pc, worker, sys_stdout, capture>>
     ELSE IF ~check_syntax(code, mode_in)
     THEN /\ stages' = <<"safety", "parse">>
          /\ sbx_ret' = SbxRet("syntax_error", 0, 0, FALSE)
          /\ UNCHANGED <<sbx_pc, worker, sys_stdout, capture>>
     ELSE /\ stages' = <<"safety", "parse", "run">>
          /\ sbx_ret' = SbxRet("pending", 0, 0, FALSE)
          /\ sbx_pc' = "joining"
          /\ worker' = <<[done |-> FALSE, exc |-> "none", raised |-> "none",
                           out |-> 0, err |-> 0]>>
          /\ sys_stdout' = IF mode_in # "eval" /\ capture_in THEN "capture"
                           ELSE sys_stdout
          /\ capture' = [out |-> 0, err |-> 0]
  /\ UNCHANGED abandoned
  /\ SbxFrame

\* The worker of the waiting execute runs the code to its end, having
\* printed `out` characters to sys.stdout and `err` to sys.stderr.
worker_run(outcome, out, err) ==
  /\ worker # <<>>
  /\ ~worker[1].done
  /\ worker' = <<[done |-> TRUE,
                  exc |-> Caught(outcome),
                  raised |-> IF outcome = "value" THEN "none" ELSE outcome,
                  out |-> out, err |-> err]>>
  /\ capture' = Printed(out, err)
  /\ UNCHANGED <<execution_count, sbx_pc, abandoned, sys_stdout, stages, sbx_ret>>
  /\ SbxFrame

\* A thread left behind by an earlier execution runs its code to its end.
abandoned_run(out, err) ==
  /\ abandoned > 0
  /\ abandoned' = abandoned - 1
  /\ capture' = Printed(out, err)
  /\ UNCHANGED <<execution_count, sbx_pc, worker, sys_stdout, stages, sbx_ret>>
  /\ SbxFrame

\* thread.join returned because the worker ended: the streams are restored
\* and execute returns the outputs, or the message for what the code raised.
sbx_join_done ==
  /\ sbx_pc = "joining"
  /\ worker # <<>>
  /\ worker[1].done
  /\ sbx_ret' = IF worker[1].exc = "none"
                THEN SbxRet("success", capture.out, capture.err, FALSE)
                ELSE SbxRet(HandlerFor(worker[1].exc), 0, 0, FALSE)
  /\ sbx_pc' = "idle"
  /\ worker' = <<>>
  /\ sys_stdout' = "real"
  /\ capture' = [out |-> 0, err |-> 0]
  /\ UNCHANGED <<execution_count, abandoned, stages>>
  /\ SbxFrame

\* thread.join returned because the timeout elapsed: _run_with_timeout
\* raises TimeoutError and leaves the thread running.
sbx_timeout ==
  /\ sbx_pc = "joining"
  /\ timeout_in = "finite"
  /\ worker # <<>>
  /\ ~worker[1].done
  /\ sbx_ret' = SbxRet(HandlerFor("TimeoutError"), 0, 0, FALSE)
  /\ sbx_pc' = "idle"
  /\ worker' = <<>>
  /\ abandoned' = abandoned + 1
  /\ sys_stdout' = "real"
  /\ capture' = [out |-> 0, err |-> 0]
  /\ UNCHANGED <<execution_count, stages>>
  /\ SbxFrame

\* ---------------------------------------------------------- the calculator

\* A value of the evaluation: an int, a float or a bool, worth the fraction
\* num/den with den > 0, or ("fn") one of the functions of self.functions.
Value(t, num, den, name) == [t |-> t, num |-> num, den |-> den, name |-> name]
IntV(n) == Value("int", n, 1, "")
FloatV(n, d) == Value("float", n, d, "")
BoolV(b) == Value("bool", IF b THEN 1 ELSE 0, 1, "")
FnV(name) == Value("fn", 0, 1, name)
NoValue == Value("none", 0, 1, "")

\* The nodes ast.parse(expression, mode='eval') builds, and NoParse for a
\* text it raises on.
Constant(value) == [kind |-> "Constant", value |-> value]
Name(id) == [kind |-> "Name", id |-> id]
BinOp(left, op, right) == [kind |-> "BinOp", left |-> left, op |-> op, right |-> right]
UnaryOp(op, operand) == [kind |-> "UnaryOp", op |-> op, operand |-> operand]
Call(func, args) == [kind |-> "Call", func |-> func, args |-> args]
Compare(left, ops, comparators) ==
  [kind |-> "Compare", left |-> left, ops |-> ops, comparators |-> comparators]
IfExp == [kind |-> "IfExp"]
Tuple == [kind |-> "Tuple"]
NoParse == [kind |-> "NoParse"]

\* Calculator.operators and Calculator.functions (calculator.py:36-66), the
\* entries the expressions explored use; pi to two decimals.
operators == {"Add", "Sub", "Mult", "Div", "FloorDiv", "Mod", "USub", "UAdd"}
FunctionNames == {"abs", "sqrt", "log10", "pi"}
functions ==
  [id \in FunctionNames |-> IF id = "pi" THEN FloatV(157, 50) ELSE FnV(id)]

\* What evaluating a node comes to: a value, or the exception raised.
Ok(value) == [exc |-> "none", val |-> value, detail |-> ""]
Raise(exc) == [exc |-> exc, val |-> NoValue, detail |-> exc]

IsNumber(v) == v.t \in {"int", "float", "bool"}
IsIntegral(v) == v.num % v.den = 0
Abs(n) == IF n < 0 THEN 0 - n ELSE n
ArithType(a, b) == IF a.t = "float" \/ b.t = "float" THEN "float" ELSE "int"

\* a / b as a fraction with a positive denominator, b not zero.
Quotient(a, b) ==
  IF b.num > 0 THEN [num |-> a.num * b.den, den |-> a.den * b.num]
  ELSE [num |-> 0 - a.num * b.den, den |-> 0 - a.den * b.num]

\* operator.add, sub, mul, truediv, floordiv and mod on two values.
BinaryOperator(op, a, b) ==
  IF ~IsNumber(a) \/ ~IsNumber(b) THEN Raise("TypeError")
  ELSE IF op \in {"Div", "FloorDiv", "Mod"} /\ b.num = 0
  THEN Raise("ZeroDivisionError")
  ELSE LET t == ArithType(a, b) IN
       CASE op = "Add" ->
              Ok(Value(t, a.num * b.den + b.num * a.den, a.den * b.den, ""))
         [] op = "Sub" ->
              Ok(Value(t, a.num * b.den - b.num * a.den, a.den * b.den, ""))
         [] op = "Mult" -> Ok(Value(t, a.num * b.num, a.den * b.den, ""))
         [] op = "Div" ->
              Ok(Value("float", Quotient(a, b).num, Quotient(a, b).den, ""))
         [] op = "FloorDiv" ->
              Ok(Value(t, Quotient(a, b).num \div Quotient(a, b).den, 1, ""))
         [] op = "Mod" ->
              LET q == Quotient(a, b).num \div Quotient(a, b).den IN
              Ok(Value(t, a.num * b.den - q * b.num * a.den, a.den * b.den, ""))

\* operator.neg and operator.pos.
UnaryOperator(op, a) ==
  IF ~IsNumber(a) THEN Raise("TypeError")
  ELSE Ok(Value(IF a.t = "float" THEN "float" ELSE "int",
                IF op = "USub" THEN 0 - a.num ELSE a.num, a.den, ""))

\* The comparison of one link of a chain.
Comparison(op, a, b) ==
  IF op \in {"Eq", "NotEq"}
  THEN LET same == IF IsNumber(a) /\ IsNumber(b)
                   THEN a.num * b.den = b.num * a.den
                   ELSE a = b IN
       Ok(BoolV(IF op = "Eq" THEN same ELSE ~same))
  ELSE IF op \notin {"Lt", "LtE", "Gt", "GtE"} \/ ~IsNumber(a) \/ ~IsNumber(b)
  THEN Raise("TypeError")
  ELSE LET l == a.num * b.den
           r == b.num * a.den IN
       Ok(BoolV(CASE op = "Lt" -> l < r
                  [] op = "LtE" -> l <= r
                  [] op = "Gt" -> l > r
                  [] op = "GtE" -> l >= r))

\* The root of a square and the logarithm of a power of ten.
Isqrt(n) == CHOOSE r \in 0..n : r * r = n
Ilog10(n, d) == CHOOSE k \in 0..2 : 10 ^ k * d = n

\* func(*args) for a looked-up entry of self.functions.
ApplyFunction(id, args) ==
  IF functions[id].t # "fn" \/ Len(args) # 1 THEN Raise("TypeError")
  ELSE IF ~IsNumber(args[1]) THEN Raise("TypeError")
  ELSE LET a == args[1] IN
       CASE id = "abs" ->
              Ok(Value(IF a.t = "float" THEN "float" ELSE "int",
                       Abs(a.num), a.den, ""))
         [] id = "sqrt" ->
              IF a.num < 0 THEN Raise("ValueError")
              ELSE Ok(FloatV(Isqrt(a.num * a.den), a.den))
         [] id = "log10" ->
              IF a.num <= 0 THEN Raise("ValueError")
              ELSE Ok(FloatV(Ilog10(a.num, a.den), 1))

\* Calculator._eval_node
RECURSIVE eval_node(_)
RECURSIVE CompareFrom(_, _, _)

\* The loop over the links of a comparison chain, from link k on.
CompareFrom(left, node, k) ==
  IF k > Len(node.ops) THEN Ok(BoolV(TRUE))
  ELSE LET right == eval_node(node.comparators[k]) IN
       IF right.exc # "none" THEN right
       ELSE LET result == Comparison(node.ops[k], left, right.val) IN
            IF result.exc # "none" THEN result
            ELSE IF result.val.num = 0 THEN Ok(BoolV(FALSE))
            ELSE CompareFrom(right.val, node, k + 1)

eval_node(node) ==
  CASE node.kind = "Constant" -> Ok(node.value)
    [] node.kind = "Name" ->
         IF node.id \in FunctionNames THEN Ok(functions[node.id])
         ELSE Raise("NameError")
    [] node.kind = "BinOp" ->
         LET left == eval_node(node.left) IN
         IF left.exc # "none" THEN left
         ELSE LET right == eval_node(node.right) IN
              IF right.exc # "none" THEN right
              ELSE IF node.op \in operators
              THEN BinaryOperator(node.op, left.val, right.val)
              ELSE Raise("TypeError")
    [] node.kind = "UnaryOp" ->
         LET operand == eval_node(node.operand) IN
         IF operand.exc # "none" THEN operand
         ELSE IF node.op \in operators
         THEN UnaryOperator(node.op, operand.val)
         ELSE Raise("TypeError")
    [] node.kind = "Call" ->
         IF node.func.kind = "Name" /\ node.func.id \in FunctionNames
         THEN LET args == [k \in 1..Len(node.args) |-> eval_node(node.args[k])]
                  failed == {k \in 1..Len(args) : args[k].exc # "none"} IN
              IF failed # {}
              THEN args[CHOOSE k \in failed : \A j \in failed : k <= j]
              ELSE ApplyFunction(node.func.id,
                                 [k \in 1..Len(args) |-> args[k].val])
         ELSE Raise("NameError")
    [] node.kind = "Compare" ->
         LET left == eval_node(node.left) IN
         IF left.exc # "none" THEN left
         ELSE CompareFrom(left.val, node, 1)
    [] OTHER -> Raise("TypeError")

\* Whether the text of a node ends in a digit: a number, or a name such as
\* log10.
EndsInDigit(node) ==
  \/ node.kind = "Constant"
  \/ node.kind = "Name" /\ node.id \in {"log10"}

\* Calculator._preprocess_expression, seen on what the text parses to: the
\* substitution (\d)\( -> \1*( turns a call written right after a digit
\* into a product.
RECURSIVE preprocess_expression(_)
preprocess_expression(node) ==
  CASE node.kind = "BinOp" ->
         BinOp(preprocess_expression(node.left), node.op,
               preprocess_expression(node.right))
    [] node.kind = "UnaryOp" ->
         UnaryOp(node.op, preprocess_expression(node.operand))
    [] node.kind = "Compare" ->
         Compare(preprocess_expression(node.left), node.ops,
                 [k \in 1..Len(node.comparators) |->
                    preprocess_expression(node.comparators[k])])
    [] node.kind = "Call" ->
         LET args == [k \in 1..Len(node.args) |->
                        preprocess_expression(node.args[k])] IN
         IF ~EndsInDigit(node.func) THEN Call(node.func, args)
         ELSE IF Len(args) = 1 THEN BinOp(node.func, "Mult", args[1])
         ELSE BinOp(node.func, "Mult", Tuple)
    [] OTHER -> node

\* Calculator._safe_eval: whatever parsing or evaluating raises is raised
\* again as a SyntaxError that quotes it.
safe_eval(expression) ==
  IF expression = NoParse
  THEN [exc |-> "SyntaxError", val |-> NoValue, detail |-> "SyntaxError"]
  ELSE LET r == eval_node(expression) IN
       IF r.exc = "none" THEN r
       ELSE [exc |-> "SyntaxError", val |-> NoValue, detail |-> r.exc]

\* The text of a result: its style, the number it writes with the decimal
\* places asked for, the name it writes, and whether a decimal point is in it.
Text(style, num, den, places, name, point) ==
  [style |-> style, num |-> num, den |-> den, places |-> places,
   name |-> name, point |-> point]
NoText == Text("none", 0, 1, 0, "", FALSE)
\* The precision argument: None, or the number given.
NoPrecision == <<>>

\* A _format_result without the test for whole numbers.
format_result_floatsAsFloats(result, precision) ==
  IF result.t \in {"int", "bool"}
  THEN Text("integer", result.num \div result.den, 1, 0, "", FALSE)
  ELSE IF result.t = "float"
  THEN IF precision # NoPrecision
       THEN Text("fixed", result.num, result.den, precision[1], "",
                 precision[1] > 0)
       ELSE IF Abs(result.num) >= 1000 * result.den
       THEN Text("scientific", result.num, result.den, 2, "", TRUE)
       ELSE Text("general", result.num, result.den, 6, "", ~IsIntegral(result))
  ELSE Text("str", 0, 1, 0, result.name, FALSE)

\* Calculator._format_result.  str(int(result)) for an int (a bool is one) and
\* for a float that is_integer(); a float otherwise by precision, in
\* scientific notation from 1000 on, or with six significant digits, which
\* write a decimal point for the fractions explored; str(result) for the rest.
format_result(result, precision) ==
  IF result.t \in {"int", "bool"} \/ (result.t = "float" /\ IsIntegral(result))
  THEN Text("integer", result.num \div result.den, 1, 0, "", FALSE)
  ELSE IF result.t = "float"
  THEN IF precision # NoPrecision
       THEN Text("fixed", result.num, result.den, precision[1], "",
                 precision[1] > 0)
       ELSE IF Abs(result.num) >= 1000 * result.den
       THEN Text("scientific", result.num, result.den, 2, "", TRUE)
       ELSE Text("general", result.num, result.den, 6, "", TRUE)
  ELSE IF result.t = "bool"
  THEN \* never reached: the first test takes every bool
       Text("str", 0, 1, 0, IF result.num = 1 THEN "True" ELSE "False", FALSE)
  ELSE Text("str", 0, 1, 0, result.name, FALSE)

\* The except clauses of Calculator.execute (calculator.py:124-131).
CalcHandlerFor(exc) ==
  CASE exc = "ZeroDivisionError" -> "div_zero"
    [] exc = "ValueError" -> "value_error"
    [] exc = "SyntaxError" -> "syntax_error"
    [] OTHER -> "calc_failed"

CalcRet(kind, text, detail) == [kind |-> kind, text |-> text, detail |-> detail]

\* A calculator that numbers its results.
Result_numbered(expression, precision) ==
  LET r == safe_eval(preprocess_expression(expression)) IN
  IF r.exc = "none"
  THEN CalcRet("result", format_result(r.val, precision), Len(calc_log))
  ELSE CalcRet(CalcHandlerFor(r.exc), NoText, r.detail)

\* What Calculator.execute returns for an expression and a precision.
Result(expression, precision) ==
  LET r == safe_eval(preprocess_expression(expression)) IN
  IF r.exc = "none"
  THEN CalcRet("result", format_result(r.val, precision), "")
  ELSE CalcRet(CalcHandlerFor(r.exc), NoText, r.detail)

\* Calculator.execute(expression=..., precision=...)
calc_execute(expression, precision) ==
  /\ Len(calc_log) < MaxEvals
  /\ calc_log' = Append(calc_log, [expression |-> expression,
                                   precision |-> precision,
                                   ret |-> Result(expression, precision)])
  /\ invoked' = <<>>
  /\ UNCHANGED <<expr_in, precision_in>>
  /\ UNCHANGED <<regVars, agentVars, dbVars, sbxVars, fileVars>>

\* The expressions explored: numbers, names, calls, and one operator or one
\* comparison chain over them.
Constants ==
  {Constant(IntV(n)) : n \in {0, 1, 4, 16}}
    \cup {Constant(FloatV(1, 4)), Constant(FloatV(4, 1))}
Names == {Name("pi"), Name("x"), Name("abs")}
Calls ==
  {Call(Name("sqrt"), <<a>>) :
     a \in {Constant(IntV(16)), Constant(FloatV(1, 4)),
            UnaryOp("USub", Constant(IntV(1)))}}
    \cup {Call(Name("abs"), <<UnaryOp("USub", Constant(IntV(4)))>>),
          Call(Name("log10"), <<Constant(IntV(100))>>),
          Call(Name("nosuch"), <<Constant(IntV(1))>>),
          Call(Constant(IntV(4)), <<Constant(IntV(4))>>)}
Operands == Constants \cup Names \cup Calls
BinOps ==
  {BinOp(l, op, r) :
     l \in Operands, r \in Operands,
     op \in {"Add", "Sub", "Mult", "Div", "FloorDiv", "Mod"}}
UnaryOps == {UnaryOp(op, o) : op \in {"USub", "UAdd"}, o \in Operands}
Compares ==
  {Compare(Constant(IntV(1)), <<"Lt">>, <<Constant(IntV(4))>>),
   Compare(Constant(IntV(4)), <<"Lt">>, <<Constant(IntV(1))>>),
   Compare(Constant(IntV(4)), <<"Eq">>, <<Constant(FloatV(4, 1))>>),
   Compare(Constant(IntV(1)), <<"Lt", "Lt">>,
           <<Constant(IntV(4)), Constant(IntV(16))>>),
   Compare(Constant(IntV(1)), <<"Lt", "GtE">>,
           <<Constant(IntV(4)), Constant(IntV(16))>>),
   Compare(Name("abs"), <<"Lt">>, <<Constant(IntV(1))>>)}
Expressions ==
  Operands \cup BinOps \cup UnaryOps \cup Compares \cup {IfExp, NoParse}
Precisions == {NoPrecision, <<0>>, <<2>>}

\* An evaluation a caller may place between two others: 1 + 1.
Between == BinOp(Constant(IntV(1)), "Add", Constant(IntV(1)))

\* ----------------------------------------------------------- the file tool

\* A path is the text the tool is given, as the sequence of its separators
\* and names, the extension of a file name being a piece of its own: then
\* str.startswith is a prefix of sequences and Path.suffix the last piece.
\* NoPath is a missing path argument (None).
NoPath == <<>>

\* os.getcwd() and tempfile.gettempdir() of the process.
Cwd == <<"/", "work">>
TempDir == <<"/", "tmp">>

safe_base_paths == {Cwd, TempDir}

\* The POSIX entries; an absolute POSIX path starts with none of the others.
forbidden_paths ==
  {<<"/", "etc">>, <<"/", "usr">>, <<"/", "bin">>, <<"/", "sbin">>,
   <<"/", "var">>, <<"/", "root">>}

allowed_extensions ==
  {".txt", ".py", ".js", ".html", ".css", ".json", ".xml", ".csv", ".md",
   ".yml", ".yaml", ".toml", ".ini", ".cfg", ".log"}

backup_enabled == TRUE

startswith(text, prefix) ==
  Len(prefix) <= Len(text) /\ SubSeq(text, 1, Len(prefix)) = prefix

\* os.path.abspath of a path without "." and ".." names.
abspath(path) ==
  IF path # <<>> /\ path[1] = "/" THEN path ELSE Cwd \o <<"/">> \o path

\* os.path.dirname: what stands before the last separator.
dirname(path) ==
  LET seps == {k \in 1..Len(path) : path[k] = "/"} IN
  IF seps = {} THEN <<>>
  ELSE SubSeq(path, 1,
              (CHOOSE k \in seps : \A m \in seps : m <= k) - 1)

\* Path(path).suffix
suffix(path) ==
  IF path # <<>> /\ path[Len(path)] \in
       allowed_extensions \cup {".backup", ".1", ".2", ".3", ".4", ".5",
                                ".6", ".7", ".8", ".9"}
  THEN path[Len(path)] ELSE ""

is_safe_path(path) ==
  LET abs_path == abspath(path) IN
  IF \E forbidden \in forbidden_paths : startswith(abs_path, forbidden)
  THEN FALSE
  ELSE \E safe_base \in safe_base_paths :
         startswith(abs_path, abspath(safe_base))

check_file_extension(path) == suffix(path) \in allowed_extensions

\* A content, by its size only: the empty text (also the default of a
\* missing content argument), a short text, and one over the limit.
Huge == "huge"
Size(content) ==
  IF content = Huge THEN max_file_size + 1
  ELSE IF content = "" THEN 0 ELSE 1

\* The file system: the files that exist, under their absolute paths, with
\* their contents.
exists(f, path) == path # NoPath /\ abspath(path) \in DOMAIN f

Put(f, path, content) ==
  [p \in DOMAIN f \cup {abspath(path)} |->
     IF p = abspath(path) THEN content ELSE f[p]]

Remove(f, path) == [p \in DOMAIN f \ {abspath(path)} |-> f[p]]

\* What a handler leaves behind: the kind of its result string, the file
\* system, the paths whose content it read and the paths it wrote or removed.
FileOut(kind, f, r, w) == [kind |-> kind, fs |-> f, reads |-> r, writes |-> w]

\* f"{path}.backup" and f"{path}.backup.{counter}"
Numerals == <<".1", ".2", ".3", ".4", ".5", ".6", ".7", ".8", ".9">>
BackupName(path, counter) ==
  IF counter = 0 THEN path \o <<".backup">>
  ELSE path \o <<".backup", Numerals[counter]>>

\* The first backup name that is free.
FreeBackup(f, path) ==
  LET free == {c \in 0..Len(Numerals) : ~exists(f, BackupName(path, c))} IN
  BackupName(path, CHOOSE c \in free : \A d \in free : c <= d)

backup_file(f, path) ==
  IF path = NoPath THEN FileOut("backup_failed", f, {}, {})
  ELSE IF ~exists(f, path) THEN FileOut("no_file", f, {}, {})
  ELSE LET backup_path == FreeBackup(f, path) IN
       FileOut("backed_up", Put(f, backup_path, f[abspath(path)]),
               {path}, {backup_path})

read_file(f, path) ==
  IF path = NoPath THEN FileOut("read_failed", f, {}, {})
  ELSE IF ~exists(f, path) THEN FileOut("no_file", f, {}, {})
  ELSE IF Size(f[abspath(path)]) > max_file_size
  THEN FileOut("too_large", f, {}, {})
  ELSE IF ~check_file_extension(path) THEN FileOut("bad_type", f, {}, {})
  ELSE FileOut("read", f, {path}, {})

write_file(f, path, content) ==
  IF path = NoPath THEN FileOut("write_failed", f, {}, {})
  ELSE IF ~check_file_extension(path) THEN FileOut("bad_type", f, {}, {})
  ELSE IF Size(content) > max_file_size THEN FileOut("too_large", f, {}, {})
  ELSE LET b == IF exists(f, path) /\ backup_enabled
                THEN backup_file(f, path)
                ELSE FileOut("backed_up", f, {}, {}) IN
       IF b.kind # "backed_up"
       THEN FileOut("backup_cancelled", b.fs, b.reads, b.writes)
       ELSE IF dirname(path) = <<>>
       THEN \* os.makedirs('') raises
            FileOut("write_failed", b.fs, b.reads, b.writes)
       ELSE FileOut("written", Put(b.fs, path, content), b.reads,
                    b.writes \cup {path})

create_file(f, path, content) ==
  IF path = NoPath THEN FileOut("create_failed", f, {}, {})
  ELSE IF exists(f, path) THEN FileOut("exists", f, {}, {})
  ELSE write_file(f, path, content)

delete_file(f, path) ==
  IF path = NoPath THEN FileOut("delete_failed", f, {}, {})
  ELSE IF ~exists(f, path) THEN FileOut("no_file", f, {}, {})
  ELSE LET b == IF backup_enabled THEN backup_file(f, path)
                ELSE FileOut("backed_up", f, {}, {}) IN
       IF b.kind # "backed_up"
       THEN FileOut("backup_cancelled", b.fs, b.reads, b.writes)
       ELSE FileOut("deleted", Remove(b.fs, path), b.reads,
                    b.writes \cup {path})

\* _list_directory(path or '.'): the paths explored name files.
list_directory(f, path) ==
  IF path = NoPath THEN FileOut("listing", f, {}, {})
  ELSE IF ~exists(f, path) THEN FileOut("no_directory", f, {}, {})
  ELSE FileOut("not_a_directory", f, {}, {})

get_file_info(f, path) ==
  IF path = NoPath THEN FileOut("info_failed", f, {}, {})
  ELSE IF ~exists(f, path) THEN FileOut("no_file", f, {}, {})
  ELSE FileOut("info", f, {}, {})

\* str(path) inside an f-string.
Str(path) == IF path = NoPath THEN <<"None">> ELSE path

restore_file(f, path, backup_path) ==
  LET source == IF backup_path = NoPath THEN Str(path) \o <<".backup">>
                ELSE backup_path IN
  IF ~exists(f, source)
  THEN FileOut(IF backup_path = NoPath THEN "backup_not_found"
               ELSE "backup_missing", f, {}, {})
  ELSE IF path = NoPath \/ abspath(path) = abspath(source)
  THEN \* shutil.copy2 raises TypeError, or SameFileError
       FileOut("restore_failed", f, {}, {})
  ELSE FileOut("restored", Put(f, path, f[abspath(source)]),
               {source}, {path})

FileActions ==
  {"read", "write", "create", "delete", "list", "info", "backup", "restore"}

\* FileEditor.execute, as a function of the file system.
FileResult(f, action, path, content, backup_path) ==
  IF path # NoPath /\ ~is_safe_path(path)
  THEN FileOut("unsafe", f, {}, {})
  ELSE CASE action = "read" -> read_file(f, path)
         [] action = "write" -> write_file(f, path, content)
         [] action = "create" -> create_file(f, path, content)
         [] action = "delete" -> delete_file(f, path)
         [] action = "list" -> list_directory(f, path)
         [] action = "info" -> get_file_info(f, path)
         [] action = "backup" -> backup_file(f, path)
         [] action = "restore" -> restore_file(f, path, backup_path)
         [] OTHER -> FileOut("unsupported_action", f, {}, {})

FileRet(action, kind) == [action |-> action, kind |-> kind]

\* FileEditor.execute(action=..., path=..., content=..., backup_path=...)
file_execute(action, path, content, backup_path) ==
  LET r == FileResult(fs, action, path, content, backup_path) IN
  /\ Cardinality(DOMAIN r.fs) <= MaxFiles
  /\ fs' = r.fs
  /\ reads' = r.reads
  /\ writes' = r.writes
  /\ file_ret' = FileRet(action, r.kind)
  /\ invoked' = <<>>
  /\ UNCHANGED <<regVars, agentVars, dbVars, sbxVars, calcVars>>

\* The files explored: one in the working directory, also under its relative
\* name, one in the temporary directory, one in a forbidden directory and
\* one outside every base directory.
WorkFile == Cwd \o <<"/", "a", ".txt">>
RelativeFile == <<"a", ".txt">>
TempFile == TempDir \o <<"/", "b", ".txt">>
EtcFile == <<"/", "etc", "/", "passwd">>
HomeFile == <<"/", "home", "/", "c", ".txt">>
FilePaths == {NoPath, WorkFile, RelativeFile, TempFile, EtcFile, HomeFile}
BackupPaths == {NoPath, BackupName(WorkFile, 0), EtcFile, HomeFile}
Contents == {"", "new", Huge}
FileActionInputs == FileActions \cup {"frobnicate"}

\* --------------------------------------------------------- specifications

\* BaseAgent.__init__ and MiniManus._setup_tools: the tools the configuration
\* enables are registered, nothing has run.
AgentFresh(enabled, budget) ==
  /\ tools = [n \in enabled |-> [name |-> n, id |-> 1]]
  /\ tool_stats = [n \in enabled |-> ZeroStats]
  /\ inflight = <<>>
  /\ ret = Ret("none", <<>>)
  /\ invoked = <<>>
  /\ pc = "idle"
  /\ nsteps = 0
  /\ i = 0
  /\ results = <<>>
  /\ current_step = 0
  /\ max_steps = budget
  /\ execution_history = <<>>
  /\ clock = 0
  /\ run_ret = [kind |-> "none", lines |-> <<>>]
  /\ dispatched = {}

\* DatabaseTool.__init__: no connection.
DbFresh ==
  /\ current_connection = <<>>
  /\ current_db_type = "none"
  /\ open_conns = 0
  /\ db_ret = DbRet("none", "none", <<>>)
  /\ sent = <<>>
  /\ shown = NoTable
  /\ closed = "none"

\* PythonExecutor.__init__ with the default max_output_length.
SbxFresh ==
  /\ max_output_length = DefaultMaxOutputLength
  /\ execution_count = 0
  /\ sbx_pc = "idle"
  /\ worker = <<>>
  /\ abandoned = 0
  /\ sys_stdout = "real"
  /\ capture = [out |-> 0, err |-> 0]
  /\ stages = <<>>
  /\ sbx_ret = SbxRet("none", 0, 0, FALSE)

\* The database tool as constructed, with no request for it.
DbIdle ==
  /\ DbFresh
  /\ sql_in = <<>>
  /\ table_in = <<>>
  /\ drivers = {}
  /\ max_rows = DefaultMaxRows
  /\ rows_in = 1

\* The sandbox as constructed, with no request for it.
SbxIdle ==
  /\ SbxFresh
  /\ allow_imports = TRUE
  /\ code_in = [lexeme |-> "x", body |-> 1, pad |-> 0, grammar |-> "statements"]
  /\ mode_in = "exec"
  /\ timeout_in = "finite"
  /\ capture_in = TRUE

\* The calculator as constructed, with no request for it.
CalcIdle ==
  /\ calc_log = <<>>
  /\ expr_in = NoParse
  /\ precision_in = NoPrecision

\* The file system the file tool starts on.
InitialFiles ==
  [p \in {WorkFile, EtcFile, HomeFile} |->
     IF p = WorkFile THEN "old" ELSE "secret"]

\* The file tool as constructed, with no request made of it.
FileIdle ==
  /\ fs = InitialFiles
  /\ reads = {}
  /\ writes = {}
  /\ file_ret = FileRet("none", "none")

ToolsFresh == DbIdle /\ SbxIdle /\ CalcIdle /\ FileIdle

Init ==
  /\ \E enabled \in SUBSET ToolNames, budget \in 0..MaxBudget :
       AgentFresh(enabled, budget)
  /\ ToolsFresh

\* The orchestrator: runs of one agent, one after the other.
Next ==
  \/ \E n \in 0..MaxPlanLen, planned \in BOOLEAN : run(n, planned)
  \/ \E step \in Steps : execute_plan_iter(step)
  \/ run_end

Spec == Init /\ [][Next]_vars

\* The registry on its own: registrations, removals and dispatches.
RegNext ==
  \/ \E tool \in Tools \cup {NotATool} : add_tool(tool)
  \/ \E tool_name \in ToolNames : remove_tool(tool_name)
  \/ \E tool_name \in ToolNames, args \in ArgKinds : execute_tool(tool_name, args)
  \/ execute_tool_done

RegSpec == Init /\ [][RegNext]_vars

\* The texts the database tool is driven with when its connection handling
\* is explored: an accepted query, a refused one, the empty text of a call
\* that passes no sql, and table names, <<>> being a call that passes none.
SampleQueries == {<<"select", " ", "w">>, <<"DROP", " ", "w">>, <<>>}
TableNames == {<<>>, <<"w">>, <<"w", ")", ";", "drop", " ", "w">>}

\* The database tool on its own, in every operation, for one caller-chosen
\* sql text and table name.
DbInit ==
  /\ AgentFresh(ToolNames, MaxBudget)
  /\ SbxIdle
  /\ CalcIdle
  /\ FileIdle
  /\ DbFresh
  /\ sql_in \in SampleQueries
  /\ table_in \in TableNames
  /\ drivers \in SUBSET {"mysql", "postgresql"}
  /\ max_rows \in 1..MaxRowCap
  /\ rows_in \in 1..(MaxRowCap + 1)

DbNext ==
  \/ \E db_type \in DbTypeInputs, closes \in BOOLEAN, fails \in BOOLEAN :
       db_connect(db_type, closes, fails)
  \/ db_disconnect
  \/ \E outcome \in DriverOutcomes : db_query(outcome)
  \/ \E outcome \in DriverOutcomes : db_show_tables(outcome)
  \/ \E outcome \in DriverOutcomes : db_describe(outcome)
  \/ db_status
  \/ db_unsupported

DbSpec == DbInit /\ [][DbNext]_vars

\* The history an agent holds after n runs, n <= HistoryCap, each of an
\* empty plan: run k appended the record stamped k and nothing was cut yet.
HistoryAfter(n) == [k \in 1..n |-> [timestamp |-> k, steps_executed |-> 0]]

\* Earlier runs up to a full history.
PastRuns == 0..HistoryCap

\* The history policy: an agent that has completed up to HistoryCap runs is
\* in run() once more, its plan of at most one step generated.
HistInit ==
  /\ \E past \in PastRuns :
       /\ execution_history = HistoryAfter(past)
       /\ clock = past + 1
  /\ tools = [n \in ToolNames |-> [name |-> n, id |-> 1]]
  /\ tool_stats = [n \in ToolNames |-> ZeroStats]
  /\ inflight = <<>>
  /\ ret = Ret("none", <<>>)
  /\ invoked = <<>>
  /\ pc = "executing"
  /\ nsteps \in {0, 1}
  /\ i = 0
  /\ results = <<>>
  /\ current_step = 0
  /\ max_steps = MaxBudget
  /\ run_ret = [kind |-> "none", lines |-> <<>>]
  /\ dispatched = {}
  /\ ToolsFresh

HistNext ==
  \/ \E step \in Steps : execute_plan_iter(step)
  \/ run_end

HistSpec == HistInit /\ [][HistNext]_vars

\* The query safety filter: the query operation of a tool connected to
\* SQLite, for every sql text up to MaxSqlLen lexemes.
FilterInit ==
  /\ AgentFresh(ToolNames, MaxBudget)
  /\ SbxIdle
  /\ CalcIdle
  /\ FileIdle
  /\ DbFresh
  /\ sql_in \in Queries
  /\ table_in = <<>>
  /\ drivers = {}
  /\ max_rows = DefaultMaxRows
  /\ rows_in = 1

FilterNext ==
  \/ db_connect("sqlite", TRUE, FALSE)
  \/ \E outcome \in DriverOutcomes : db_query(outcome)

FilterSpec == FilterInit /\ [][FilterNext]_vars

\* The sandbox on its own: executions of one caller-chosen request, one
\* after the other, and the threads they leave behind.
SbxInit ==
  /\ AgentFresh(ToolNames, MaxBudget)
  /\ DbIdle
  /\ CalcIdle
  /\ FileIdle
  /\ SbxFresh
  /\ allow_imports \in BOOLEAN
  /\ code_in \in Codes
  /\ mode_in \in Modes
  /\ timeout_in \in {"finite", "none"}
  /\ capture_in \in BOOLEAN

SbxNext ==
  \/ sbx_execute
  \/ \E outcome \in RunOutcomes, out \in OutLens, err \in ErrLens :
       worker_run(outcome, out, err)
  \/ \E out \in OutLens, err \in ErrLens : abandoned_run(out, err)
  \/ sbx_join_done
  \/ sbx_timeout

SbxSpec == SbxInit /\ [][SbxNext]_vars


\* The calculator: evaluations of one expression with one precision, and of
\* another expression between them.
CalcInit ==
  /\ AgentFresh(ToolNames, MaxBudget)
  /\ DbIdle
  /\ SbxIdle
  /\ FileIdle
  /\ calc_log = <<>>
  /\ expr_in \in Expressions
  /\ precision_in \in Precisions

CalcNext ==
  \E expression \in {expr_in, Between} : calc_execute(expression, precision_in)

CalcSpec == CalcInit /\ [][CalcNext]_vars

\* The file tool: every action, on every explored path, content and
\* backup_path.
FileInit ==
  /\ AgentFresh(ToolNames, MaxBudget)
  /\ ToolsFresh

FileNext ==
  \/ \E action \in FileActionInputs \ {"write", "create", "restore"},
        path \in FilePaths :
       file_execute(action, path, "", NoPath)
  \/ \E action \in {"write", "create"}, path \in FilePaths,
        content \in Contents :
       file_execute(action, path, content, NoPath)
  \/ \E path \in FilePaths, backup_path \in BackupPaths :
       file_execute("restore", path, "", backup_path)

FileSpec == FileInit /\ [][FileNext]_vars


\* ------------------------------------------------------------- properties

HasNotice(lines) == \E k \in 1..Len(lines) : lines[k].kind = "notice"

\* No step of the current run raised out of _execute_step: every step read so
\* far was a mapping whose tool name could be looked up.
NoStepRaised == \A k \in 1..Len(results) : results[k].kind # "failed"

\* The last run() has returned the transcript of its plan.
RunReturned == pc = "idle" /\ run_ret.kind = "transcript"

\* C1: in any single run, the number of plan steps whose tool was called
\* never exceeds max_steps, whatever the plan's length.
C1_DispatchWithinBudget == Cardinality(dispatched) <= max_steps

\* A run halted by the budget after calling max_steps tools of a longer plan.
C1_Witness ==
  /\ pc = "halted"
  /\ max_steps >= 2
  /\ nsteps > max_steps
  /\ Cardinality(dispatched) = max_steps

\* C2 (as claimed): on an agent that has completed earlier runs, a run whose
\* plan has at most max_steps steps, none of which raises, gets no
\* budget-exceeded notice and returns one step line per step of its plan.
C2_BudgetIsPerRun ==
  (clock >= 2 /\ nsteps <= max_steps /\ NoStepRaised) =>
    /\ ~HasNotice(results)
    /\ RunReturned =>
         /\ Len(run_ret.lines) = nsteps
         /\ \A k \in 1..nsteps : run_ret.lines[k].kind = "step"

\* C3: on a fresh agent, a plan of more than max_steps steps, each a mapping
\* whose tool name can be looked up, yields exactly max_steps step lines
\* followed by exactly one budget-exceeded notice, and no step past the
\* budget has its tool called.
C3_LongPlanHalts ==
  (clock = 1 /\ nsteps > max_steps /\ NoStepRaised) =>
    /\ dispatched \subseteq 1..max_steps
    /\ Len(results) <= max_steps + 1
    /\ RunReturned =>
         /\ Len(run_ret.lines) = max_steps + 1
         /\ \A k \in 1..max_steps :
              run_ret.lines[k].kind = "step" /\ run_ret.lines[k].n = k
         /\ run_ret.lines[max_steps + 1].kind = "notice"

\* Scenario C: 3 steps, budget 2, two step lines and the notice.
C3_Witness ==
  /\ clock = 1
  /\ RunReturned
  /\ nsteps = 3
  /\ max_steps = 2
  /\ Len(run_ret.lines) = 3
  /\ run_ret.lines[3].kind = "notice"
  /\ dispatched = {1, 2}

\* C4 (as claimed): a step the orchestrator executes against a registered
\* tool adds one to that tool's calls and one to its successes or failures.
C4_StepsCountedByDispatch ==
  [][\A n \in DOMAIN tools :
       (dispatched' # dispatched /\ invoked' = << <<"execute", tools[n]>> >>) =>
         /\ n \in DOMAIN tool_stats'
         /\ tool_stats'[n].calls = tool_stats[n].calls + 1
         /\ tool_stats'[n].successes + tool_stats'[n].failures
              = tool_stats[n].successes + tool_stats[n].failures + 1]_vars

\* C5: whenever no dispatch is in flight, every registered tool's counters
\* satisfy calls = successes + failures.
C5_CallsAreSuccessesPlusFailures ==
  inflight = <<>> =>
    \A n \in DOMAIN tool_stats :
      tool_stats[n].calls = tool_stats[n].successes + tool_stats[n].failures

\* A tool that has completed one successful and one failed dispatch.
C5_Witness ==
  /\ inflight = <<>>
  /\ \E n \in DOMAIN tool_stats :
       /\ tool_stats[n].calls = 2
       /\ tool_stats[n].successes = 1
       /\ tool_stats[n].failures = 1

\* C6 (as claimed): a dispatch in which the tool's own logic faults is
\* counted in the tool's failures, not in its successes.
C6_FaultCountsAsFailure ==
  [][(inflight # <<>> /\ inflight' = <<>> /\ inflight[1].live
        /\ inflight[1].args = "fault") =>
       /\ tool_stats'[inflight[1].name].failures
            = tool_stats[inflight[1].name].failures + 1
       /\ tool_stats'[inflight[1].name].successes
            = tool_stats[inflight[1].name].successes]_vars

\* C7: a dispatch to a name that is not registered returns not-found, makes
\* no statistics entry for the name and leaves all counters as they were.
C7_UnknownNameTouchesNothing ==
  [][\A n \in ToolNames, a \in ArgKinds :
       (execute_tool(n, a) /\ n \notin DOMAIN tools) =>
         /\ ret'.kind = "not_found"
         /\ n \notin DOMAIN tool_stats'
         /\ tool_stats' = tool_stats
         /\ tools' = tools
         /\ invoked' = <<>>]_vars

\* A not-found dispatch beside a registered tool that has been called.
C7_Witness ==
  /\ ret.kind = "not_found"
  /\ DOMAIN tools # ToolNames
  /\ \E n \in DOMAIN tool_stats : tool_stats[n].calls >= 1

\* C8: registering a tool under a registered name replaces the earlier
\* tool: the number of names is unchanged, the name's counters restart from
\* zero, and a dispatch to a name calls the tool now registered under it.
C8_ReRegistrationReplaces ==
  [][/\ \A t \in Tools :
          (add_tool(t) /\ t.name \in DOMAIN tools) =>
            /\ Cardinality(DOMAIN tools') = Cardinality(DOMAIN tools)
            /\ tools'[t.name] = t
            /\ tool_stats'[t.name] = ZeroStats
     /\ \A n \in ToolNames, a \in ArgKinds :
          (execute_tool(n, a) /\ n \in DOMAIN tools) =>
            /\ \A k \in 1..Len(invoked') : invoked'[k][2] = tools[n]
            /\ inflight' # <<>> => inflight'[1].tool = tools[n]
     /\ (inflight # <<>> /\ inflight' = <<>> /\ ret'.by # <<>>) =>
            ret'.by = <<inflight[1].tool>>]_vars

\* The second tool object has just replaced the first under its name.
C8_Witness ==
  /\ ret.kind = "replaced"
  /\ \E n \in DOMAIN tools : tools[n].id = 2 /\ tool_stats[n] = ZeroStats

\* C9: a dispatch to a registered tool counts the call before anything else:
\* while the tool's execute runs, calls is already one ahead, and a raise or
\* a refusal of validate_args leaves the call counted.  When validate_args
\* returns false, execute is not called, failures grows by one and successes
\* stays.
C9_CallsFirstAndRefusalIsFailure ==
  /\ [](\A k \in 1..Len(inflight) :
          inflight[k].live =>
            tool_stats[inflight[k].name].calls
              = tool_stats[inflight[k].name].successes
                + tool_stats[inflight[k].name].failures + 1)
  /\ [][\A n \in ToolNames, a \in ArgKinds :
          (execute_tool(n, a) /\ n \in DOMAIN tools) =>
            /\ tool_stats'[n].calls = tool_stats[n].calls + 1
            /\ validate_args(tools[n], a) = "false" =>
                 /\ invoked' = << <<"validate_args", tools[n]>> >>
                 /\ inflight' = <<>>
                 /\ ret'.kind = "validation_failed"
                 /\ tool_stats'[n].failures = tool_stats[n].failures + 1
                 /\ tool_stats'[n].successes = tool_stats[n].successes]_vars

\* A refused dispatch, the second call to its tool.
C9_Witness ==
  /\ ret.kind = "validation_failed"
  /\ Len(invoked) = 1
  /\ \E n \in DOMAIN tool_stats :
       tool_stats[n].calls = 2 /\ tool_stats[n].failures >= 1

\* C10 (as claimed): a step whose arguments the named tool's validate_args
\* refuses does not reach the tool's execute and is recorded as an error line.
C10_RefusedStepNotExecuted ==
  [][\A step \in Steps :
       (/\ execute_plan_iter(step)
        /\ ~BudgetReached
        /\ step.shape = "dict"
        /\ step.tool \in DOMAIN tools
        /\ validate_args(tools[step.tool], step.args) = "false") =>
         /\ invoked' = <<>>
         /\ results'[Len(results')].mark = "err"]_vars

\* C11 (as claimed): whatever a step is, a pass of the loop that the budget
\* does not stop leaves the run executing, adds one line to the results and
\* moves on to the next step of the plan.
C11_FaultyStepDoesNotEndRun ==
  [][\A step \in Steps :
       (execute_plan_iter(step) /\ ~BudgetReached) =>
         /\ pc' = "executing"
         /\ i' = i + 1
         /\ Len(results') = Len(results) + 1]_vars

\* C12: a dispatch to a registered tool whose validate_args raises returns
\* the failure string at once, without calling execute, and counts one
\* failure; a dispatch whose execute raises returns the failure string and
\* counts one failure in the counters it holds; a dispatch that comes back
\* from execute always returns a string.
C12_DispatchCatchesFaults ==
  [][/\ \A n \in ToolNames, a \in ArgKinds :
          (/\ execute_tool(n, a)
           /\ n \in DOMAIN tools
           /\ validate_args(tools[n], a) = "raise") =>
            /\ ret'.kind = "exec_failed"
            /\ inflight' = <<>>
            /\ invoked' = << <<"validate_args", tools[n]>> >>
            /\ tool_stats'[n].failures = tool_stats[n].failures + 1
            /\ tool_stats'[n].successes = tool_stats[n].successes
     /\ (inflight # <<>> /\ inflight' = <<>>) =>
          /\ ret'.kind \in {"exec_failed", "value", "error_string"}
          /\ execute(inflight[1].tool, inflight[1].args).raised =>
               /\ ret'.kind = "exec_failed"
               /\ inflight[1].live =>
                    /\ tool_stats'[inflight[1].name].failures
                         = tool_stats[inflight[1].name].failures + 1
                    /\ tool_stats'[inflight[1].name].successes
                         = tool_stats[inflight[1].name].successes]_vars

\* A dispatch whose validate_args raised, after one whose execute raised.
C12_Witness ==
  /\ ret.kind = "exec_failed"
  /\ Len(invoked) = 1
  /\ \E n \in DOMAIN tool_stats :
       tool_stats[n].calls = 2 /\ tool_stats[n].failures = 2

\* The first lexeme of a text that is no blank, if there is one.
LeadingLexeme(text) ==
  LET ks == {k \in 1..Len(text) : text[k] \notin Blank} IN
  IF ks = {} THEN <<>>
  ELSE <<text[CHOOSE k \in ks : \A j \in ks : k <= j]>>

\* The text begins, blanks and spelling aside, with the read-only keyword.
BeginsWithSelect(text) == LeadingLexeme(text) \in {<<"select">>, <<"SELECT">>}

\* The lexemes that spell a deny-listed keyword, in either case.
DenyListed == {"drop", "DROP"}

\* The last operation was a query and the tool refused it without a cursor.
QueryRefused ==
  /\ sent = <<>>
  /\ db_ret.kind \in {"unsafe", "not_connected"}
  /\ current_connection # <<>> => db_ret.kind = "unsafe"

\* C13 (as claimed): every statement the database tool hands to a cursor is
\* one the query safety filter accepts.
C13_SentOnlyIfAccepted == \A k \in 1..Len(sent) : is_safe_sql(sent[k])

\* C14: a query whose text holds a deny-listed keyword anywhere, in either
\* spelling, is refused and nothing is handed to a cursor.
C14_KeywordAnywhereRefused ==
  (db_ret.op = "query" /\ \E k \in 1..Len(sql_in) : sql_in[k] \in DenyListed)
    => QueryRefused

\* A connected tool has refused a query that begins with the read-only
\* keyword and holds a deny-listed keyword, in capitals, further on.
C14_Witness ==
  /\ db_ret.op = "query"
  /\ db_ret.kind = "unsafe"
  /\ current_connection # <<>>
  /\ Len(sql_in) >= 3
  /\ sql_in[1] = "select"
  /\ \E k \in 2..Len(sql_in) : sql_in[k] = "DROP"
  /\ \A k \in 1..Len(sql_in) : sql_in[k] \notin Punctuation

\* C15: a query whose text, trimmed and case-folded, does not begin with
\* the read-only keyword is refused and nothing is handed to a cursor.
C15_NonSelectRefused ==
  (db_ret.op = "query" /\ ~BeginsWithSelect(sql_in)) => QueryRefused

\* A connected tool has refused a query of harmless words that begins with
\* another word than the read-only keyword.
C15_Witness ==
  /\ db_ret.op = "query"
  /\ db_ret.kind = "unsafe"
  /\ current_connection # <<>>
  /\ LeadingLexeme(sql_in) = <<"w">>
  /\ \A k \in 1..Len(sql_in) : sql_in[k] \in {"w", " ", "select"}

\* C16 (as claimed): a query that holds a comment marker, or a separator
\* with anything but blanks and line breaks after it, is refused.
C16_MarkerOrSeparatorRefused ==
  (/\ db_ret.op = "query"
   /\ current_connection # <<>>
   /\ \/ \E k \in 1..Len(sql_in) : sql_in[k] \in {"--", "/*", "*/"}
      \/ \E p \in 1..Len(sql_in), q \in 1..Len(sql_in) :
           p < q /\ sql_in[p] = ";" /\ sql_in[q] \notin Blank)
    => db_ret.kind = "unsafe"

\* C17 (as claimed): a query that begins with a deny-listed keyword is
\* refused, nothing is handed to a cursor, and the message names the keyword.
C17_RefusalNamesKeyword ==
  (/\ db_ret.op = "query"
   /\ current_connection # <<>>
   /\ LeadingLexeme(sql_in) # <<>>
   /\ LeadingLexeme(sql_in)[1] \in DenyListed)
    => /\ db_ret.kind = "unsafe"
       /\ sent = <<>>
       /\ \E k \in 1..Len(db_ret.mentions) :
            db_ret.mentions[k] = Lower(LeadingLexeme(sql_in)[1])

C19_PipelineOrdered ==
  stages # <<>> =>
    /\ stages \in {<<"safety">>, <<"safety", "parse">>,
                   <<"safety", "parse", "run">>}
    /\ (\/ code_in.lexeme \in {"import os", "IMPORT OS"}
        \/ code_in.body > MaxCodeLength) =>
          /\ stages = <<"safety">>
          /\ sbx_ret.kind = "unsafe"
    /\ ~check_syntax(code_in, mode_in) =>
          \/ stages = <<"safety">> /\ sbx_ret.kind = "unsafe"
          \/ stages = <<"safety", "parse">> /\ sbx_ret.kind = "syntax_error"

\* Code that spells a dangerous keyword in capitals, and would not parse
\* either, has been refused by the safety check alone.
C19_Witness ==
  /\ code_in.lexeme = "IMPORT OS"
  /\ code_in.grammar = "neither"
  /\ code_in.body = 1
  /\ stages = <<"safety">>
  /\ sbx_ret.kind = "unsafe"

\* C20 (as claimed): the captured standard output and standard error a
\* successful execution returns are each at most max_output_length long.
C20_OutputsBounded ==
  sbx_ret.kind = "success" =>
    /\ sbx_ret.stdout <= max_output_length
    /\ sbx_ret.stderr <= max_output_length

\* C21 (as claimed): an execution whose worker ended because the code raised
\* returns the execution-failed message, not the timeout message and not
\* the success message.
C21_CodeExceptionIsExecutionFailure ==
  [][(/\ sbx_pc = "joining"
      /\ sbx_pc' = "idle"
      /\ worker # <<>>
      /\ worker[1].done
      /\ worker[1].raised # "none") =>
       /\ sbx_ret'.kind = "exec_failed"
       /\ sbx_ret'.kind \notin {"timeout", "success"}]_vars

\* C22 (as claimed): at most one connection the tool has opened is still
\* open, and a connect that succeeds while a connection is live has closed
\* that connection.
C22_AtMostOneOpenConnection ==
  /\ open_conns <= 1
  /\ current_connection # <<>> => open_conns = 1

\* C23: a disconnect issued while no connection is active, a disconnect
\* that follows a completed disconnect in particular, returns a result that
\* is neither an error nor a warning and leaves the connection, its type and
\* the open connections as they were.
C23_DisconnectIdempotent ==
  [][db_disconnect =>
       /\ current_connection = <<>> =>
            /\ Mark(db_ret'.kind) \notin {"error", "warning"}
            /\ UNCHANGED <<current_connection, current_db_type, open_conns>>
       /\ (db_ret.op = "disconnect" /\ db_ret.kind = "disconnected") =>
            /\ db_ret'.kind = "no_connection"
            /\ UNCHANGED <<current_connection, current_db_type, open_conns>>]_vars

\* A disconnect has found no connection to close.
C23_Witness ==
  /\ db_ret.op = "disconnect"
  /\ db_ret.kind = "no_connection"
  /\ current_connection = <<>>
  /\ current_db_type = "none"
  /\ open_conns = 0

\* C24: the execution history never holds more than HistoryCap records.
C24_HistoryBounded == Len(execution_history) <= HistoryCap

\* The run that has just returned appended the record that filled the
\* history to its capacity.
C24_Witness ==
  /\ pc = "idle"
  /\ run_ret.kind = "transcript"
  /\ Len(execution_history) = HistoryCap
  /\ execution_history[HistoryCap].timestamp = clock

\* C25: when the record a run appends makes the history longer than
\* HistoryCap, the history becomes the HistoryKeep most recent records in
\* their order, the new record last; otherwise the history becomes the old
\* one with the new record after it.
C25_CutKeepsMostRecent ==
  [][run_end =>
       LET old == execution_history
           new == execution_history'
           record == [timestamp |-> clock, steps_executed |-> current_step] IN
       IF Len(old) + 1 > HistoryCap
       THEN /\ Len(new) = HistoryKeep
            /\ new[HistoryKeep] = record
            /\ \A k \in 1..(HistoryKeep - 1) :
                 new[k] = old[Len(old) - (HistoryKeep - 1) + k]
       ELSE /\ Len(new) = Len(old) + 1
            /\ new[Len(new)] = record
            /\ \A k \in 1..Len(old) : new[k] = old[k]]_vars

\* The run stamped HistoryCap + 1 has cut the history: the records stamped
\* HistoryCap - HistoryKeep + 2 to HistoryCap + 1 are left.
C25_Witness ==
  /\ pc = "idle"
  /\ Len(execution_history) = HistoryKeep
  /\ execution_history[HistoryKeep].timestamp = HistoryCap + 1
  /\ execution_history[1].timestamp = HistoryCap - HistoryKeep + 2
  /\ clock = HistoryCap + 1

\* C26: a run whose plan has no step calls no tool and collects no line,
\* and when it ends it returns the empty transcript and has appended one
\* record, stamped with this run, to the history.
C26_EmptyPlanIsLegal ==
  /\ [](nsteps = 0 =>
          /\ dispatched = {}
          /\ invoked = <<>>
          /\ results = <<>>)
  /\ [][(run_end /\ nsteps = 0) =>
          /\ run_ret' = [kind |-> "transcript", lines |-> <<>>]
          /\ Len(execution_history') = Len(execution_history) + 1
          /\ execution_history'[Len(execution_history')].timestamp = clock
          /\ \A k \in 1..Len(execution_history) :
               execution_history'[k] = execution_history[k]]_vars

\* The first run of an agent, of an empty plan, has returned.
C26_Witness ==
  /\ pc = "idle"
  /\ clock = 1
  /\ nsteps = 0
  /\ run_ret = [kind |-> "transcript", lines |-> <<>>]
  /\ dispatched = {}
  /\ Len(execution_history) = 1

\* C27: a run whose plan generation raises returns the failure string: the
\* agent stays idle, no tool is called, and the execution history and the
\* executed-step counter are what they were.
C27_FailedPlanningChangesNothing ==
  [][(\E n \in 0..MaxPlanLen : run(n, FALSE)) =>
       /\ run_ret'.kind = "failed"
       /\ pc' = "idle"
       /\ invoked' = <<>>
       /\ dispatched' = dispatched
       /\ execution_history' = execution_history
       /\ current_step' = current_step]_vars

\* After a first run that executed every step of its plan, the second run
\* failed to plan: one record, and the counter of the first run.
C27_Witness ==
  /\ pc = "idle"
  /\ clock = 2
  /\ run_ret.kind = "failed"
  /\ nsteps >= 1
  /\ i = nsteps
  /\ current_step >= 1
  /\ Len(execution_history) = 1
  /\ execution_history[1].timestamp = 1

\* The expression is a division, a floor division or a remainder whose
\* operands evaluate to numbers, the right one to zero.
DividesByZero(expression) ==
  LET node == preprocess_expression(expression) IN
  /\ node.kind = "BinOp"
  /\ node.op \in {"Div", "FloorDiv", "Mod"}
  /\ eval_node(node.left).exc = "none"
  /\ eval_node(node.right).exc = "none"
  /\ IsNumber(eval_node(node.left).val)
  /\ IsNumber(eval_node(node.right).val)
  /\ eval_node(node.right).val.num = 0

\* C28 (as claimed): an evaluation that divides by zero returns the
\* division-by-zero result, not the syntax-error result and not the
\* calculation-failed result.
C28_DivisionByZeroReported ==
  \A k \in 1..Len(calc_log) :
    DividesByZero(calc_log[k].expression) =>
      /\ calc_log[k].ret.kind = "div_zero"
      /\ calc_log[k].ret.kind \notin {"syntax_error", "calc_failed"}

C31_RowsCapped ==
  shown # NoTable =>
    /\ shown.rows <= max_rows
    /\ shown.note = "more" <=> shown.rows = max_rows
    /\ shown.note # "more" => (shown.note = "count" /\ shown.stated = shown.rows)

\* The fields of the database tool that outlive one execute.
DbState == <<current_connection, current_db_type, open_conns>>

\* C32 (as claimed): an execute of the database tool with an action it does
\* not know, or without the db_type of connect, the sql of query or the table
\* of describe, returns a rejection and changes no field of the tool.
C32_RejectionChangesNothing ==
  [][(\/ db_unsupported
      \/ \E closes \in BOOLEAN, fails \in BOOLEAN :
           db_connect(NoDbType, closes, fails)
      \/ sql_in = <<>> /\ \E outcome \in DriverOutcomes : db_query(outcome)
      \/ table_in = <<>> /\ \E outcome \in DriverOutcomes : db_describe(outcome))
     => (Mark(db_ret'.kind) = "error" /\ UNCHANGED DbState)]_vars

\* C33 (as claimed): the outputs a successful execution returns hold nothing
\* but what its own code printed, whatever the threads left behind by
\* earlier executions print meanwhile.
C33_OnlyOwnOutput ==
  [][(sbx_join_done /\ sbx_ret'.kind = "success") =>
       /\ sbx_ret'.stdout <= worker[1].out
       /\ sbx_ret'.stderr <= worker[1].err]_vars

\* A step of one of the three operations that need a connection.
NeedsConnectionStep ==
  \E outcome \in DriverOutcomes :
    db_query(outcome) \/ db_show_tables(outcome) \/ db_describe(outcome)

\* C34: a query, show_tables or describe returns the no-connection result
\* exactly when the tool holds no connection, whatever the statement is, so
\* that it is never the safety rejection; and then nothing is handed to a
\* cursor.
C34_NoConnectionReported ==
  [][NeedsConnectionStep =>
       /\ db_ret'.kind = "not_connected" <=> current_connection = <<>>
       /\ current_connection = <<>> => sent' = <<>>]_vars

\* A refused statement was given to query with no connection, and the
\* no-connection result came back.
C34_Witness ==
  /\ db_ret = DbRet("query", "not_connected", <<>>)
  /\ ~is_safe_sql(strip(sql_in))
  /\ current_connection = <<>>
  /\ sent = <<>>

\* A connect step that fails for its type, its driver or the driver's
\* refusal.
ConnectFails ==
  /\ \E db_type \in DbTypeInputs, closes \in BOOLEAN, fails \in BOOLEAN :
       db_connect(db_type, closes, fails)
  /\ db_ret'.kind = "connect_failed"

\* C35: a connect that fails while the tool holds no connection, or one
\* whose close() returns, leaves the tool without a connection, and a query
\* that follows it gets the no-connection result.
C35_FailedConnectLeavesNone ==
  [][/\ (ConnectFails /\ (current_connection = <<>> \/ current_connection[1].closes))
          => (current_connection' = <<>> /\ current_db_type' = "none")
     /\ (/\ db_ret.kind = "connect_failed"
         /\ closed # "raised"
         /\ \E outcome \in DriverOutcomes : db_query(outcome))
          => (db_ret'.kind = "not_connected" /\ sent' = <<>>)]_vars

\* A connect has failed after closing the connection that was live, and
\* left none.
C35_Witness ==
  /\ db_ret.kind = "connect_failed"
  /\ closed = "closed"
  /\ current_connection = <<>>

\* C36: the names with counters are the registered names, in every state
\* registrations, removals and dispatches lead to; and a removal returns
\* True exactly when the name was registered, after which neither the tool
\* nor its counters are there.
C36_StatsFollowTools ==
  /\ [](DOMAIN tool_stats = DOMAIN tools)
  /\ [][\A tool_name \in ToolNames :
          remove_tool(tool_name) =>
            /\ ret'.kind = "True" <=> tool_name \in DOMAIN tools
            /\ tool_name \notin DOMAIN tools'
            /\ tool_name \notin DOMAIN tool_stats']_vars

\* A removal returned True and left another tool registered, after a
\* dispatch had been counted.
C36_Witness ==
  /\ ret.kind = "True"
  /\ DOMAIN tools # {}
  /\ DOMAIN tools # ToolNames
  /\ \E n \in DOMAIN tool_stats : tool_stats[n].calls > 0

\* C37 (as claimed): the result of an expression that is a comparison chain
\* is a boolean, and it is written as True or as False.
C37_ComparisonRendersBoolean ==
  \A k \in 1..Len(calc_log) :
    LET node == preprocess_expression(calc_log[k].expression)
        r == safe_eval(node)
        text == calc_log[k].ret.text IN
    (node.kind = "Compare" /\ calc_log[k].ret.kind = "result") =>
      /\ r.val.t = "bool"
      /\ text.style = "str"
      /\ text.name = (IF r.val.num = 1 THEN "True" ELSE "False")

\* The expression is a call of an allow-listed function that has a value
\* for its arguments.
CallWithValue(expression) ==
  /\ expression.kind = "Call"
  /\ expression.func.kind = "Name"
  /\ expression.func.id \in FunctionNames
  /\ eval_node(expression).exc = "none"

\* C39 (as claimed): the normalization pass leaves a call of an allow-listed
\* function as it is, and the evaluation returns the value of the function,
\* also for a function whose name ends in a digit.
C39_CallsSurviveNormalization ==
  \A k \in 1..Len(calc_log) :
    CallWithValue(calc_log[k].expression) =>
      /\ preprocess_expression(calc_log[k].expression) = calc_log[k].expression
      /\ calc_log[k].ret =
           CalcRet("result",
                   format_result(eval_node(calc_log[k].expression).val,
                                 calc_log[k].precision), "")

\* C38 (as claimed): every path whose file an execute of the file tool read,
\* wrote or removed passes the path-safety check.
C38_TouchedPathsAreSafe ==
  \A path \in reads \cup writes : is_safe_path(path)

====
